---------------------------- MODULE Spec2Model ----------------------------
(***************************************************************************)
(* Model of github.com/domonda/go-pretty: the value renderer                *)
(* (Printer.fprint with its cycle tracker), quoteString, the map key        *)
(* ordering (sortReflectValues) and the re-indenter (Indent).               *)
(*                                                                          *)
(* Text is modelled as a sequence of bytes.  A byte is a TLA+ string: an    *)
(* ASCII byte is the character itself, the bytes of the multi-byte          *)
(* characters used are "C3" "A9" (U+00E9) and "E2" "80" "A6" (U+2026, the   *)
(* ellipsis), and "FF" is a byte that is not valid UTF-8.  Some fixed       *)
(* ASCII words the renderer writes (nil, CIRCULAR_REF, a type name, a       *)
(* number) are kept as one element.  The backtick is written "BQ".          *)
(***************************************************************************)
EXTENDS Integers, Sequences, FiniteSets, TLC

VARIABLES
    \* ---- Printer.Sprint / Printer.fprint ----
    heap,       \* the caller's memory: cell -> value stored there
    p,          \* the Printer: its three limits
    impl,       \* which revision of the byte-slice summary guard is compiled in
    rpc,        \* position of the top-level call
    stack,      \* the active fprint calls, innermost last
    ptrs,       \* visitedPtrs of this top-level call
    out,        \* bytes written to w so far
    lastRet,    \* (history) the tracker on entry to and on return from the last finished call
    missed,     \* (history) a pointer to a target being rendered was followed without a marker
    \* ---- quoteString ----
    qs, qmax, qres, qpc,
    \* ---- Indent ----
    source, indent, linePrefix, state, newLineIndent, result, unwritten, i, ipc,
    depth,      \* (history) number of unclosed structural {
    lastNL,     \* (history) what the last structural newline was followed by, and the depth then
    lit,        \* (history) the string literal the renderer put into source
    \* ---- map rendering ----
    mkind,      \* the kind of the key type: int, or interface
    mkeys,      \* the keys of the map
    mapKeys,    \* the slice v.MapKeys() returned, as sorted later
    mpc,        \* position in the map case
    mouts,      \* the finished renderings of the map
    \* ---- Printer.fprint on one value slot: hooks, Nullable, Context ----
    hv,         \* the reflect.Value handed to fprint: what wraps it, and what it is
    hp,         \* the Printer the render was called on
    gDefault,   \* the package-level variable DefaultPrinter
    hpc,        \* position in fprint
    hout,       \* bytes written to w
    hcalls,     \* (history) the methods of the value that were invoked, and on what receiver
    \* ---- Printer.Fprint / Printer.Fprintln on a sink ----
    wv,         \* the value
    wcall,      \* Fprint or Fprintln
    windent,    \* the indent arguments
    sink,       \* the io.Writer w, with what it has accepted
    wn, werr,   \* the n and err being returned
    wends,      \* endsWithNewLine
    wret,       \* the text Sprint returns
    wpc         \* position of the call

rvars == <<heap, p, impl, rpc, stack, ptrs, out, lastRet, missed>>
qvars == <<qs, qmax, qres, qpc>>
ivars == <<source, indent, linePrefix, state, newLineIndent, result, unwritten, i, ipc,
           depth, lastNL, lit>>
mvars == <<mkind, mkeys, mapKeys, mpc, mouts>>
hvars == <<hv, hp, gDefault, hpc, hout, hcalls>>
wvars == <<wv, wcall, windent, sink, wn, werr, wends, wret, wpc>>
vars  == <<rvars, qvars, ivars, mvars, hvars, wvars>>

(***************************************************************************)
(* Bounds of the model                                                      *)
(***************************************************************************)
NCells       == 3   \* memory cells of a rendered value graph
MaxStrLen    == 3   \* characters of a string handed to quoteString
MaxLimit     == 2   \* largest positive limit tried for the Printer fields
MaxElems     == 3   \* elements of a flat slice
MaxSrcLen    == 4   \* characters of a source handed to Indent
MaxIndentLen == 2   \* bytes of the indent unit
MaxPrefix    == 1   \* line prefix parts
MaxKeys      == 3   \* keys of a map
MaxWrites    == 4   \* the write of a call that the sink fails, counted from 1
MaxFields    == 2   \* fields of a struct, elements of an array, written to a sink

(***************************************************************************)
(* Bytes, characters and UTF-8 decoding                                     *)
(***************************************************************************)
RECURSIVE Concat(_)
Concat(ss) == IF ss = <<>> THEN <<>> ELSE Head(ss) \o Concat(Tail(ss))

RECURSIVE Rep(_, _)
Rep(s, n) == IF n <= 0 THEN <<>> ELSE s \o Rep(s, n - 1)

Range(s) == {s[k] : k \in DOMAIN s}

\* all sequences over S of length at most n
SeqUpTo(S, n) == UNION {[1..k -> S] : k \in 0..n}

NonAscii == {"C3", "A9", "E2", "80", "A6", "FF", "EF", "BF", "BD"}
Lead2    == {"C3"}
Lead3    == {"E2", "EF"}
ContByte == {"A9", "80", "A6", "BF", "BD"}
Ellipsis == <<"E2", "80", "A6">>
EAcute   == <<"C3", "A9">>
\* the encoding of U+FFFD, the character utf8.RuneError
Replacement == <<"EF", "BF", "BD">>

\* utf8.DecodeRune(s[at:]), at counted from 0: the character and its width.
\* An invalid or incomplete encoding gives RuneError with width 1; the valid
\* encoding of U+FFFD gives the same character with width 3.
DecodeRune(s, at) ==
    LET b == s[at + 1] IN
    IF b \notin NonAscii THEN [r |-> b, size |-> 1]
    ELSE IF b \in Lead2 /\ at + 2 <= Len(s) /\ s[at + 2] \in ContByte
        THEN [r |-> "U+00E9", size |-> 2]
    ELSE IF b \in Lead3 /\ at + 3 <= Len(s) /\ s[at + 2] \in ContByte /\ s[at + 3] \in ContByte
        THEN [r |-> IF SubSeq(s, at + 1, at + 3) = Replacement THEN "RuneError"
                    ELSE IF b = "E2" THEN "U+2026" ELSE "U+F000",
              size |-> 3]
    ELSE [r |-> "RuneError", size |-> 1]

\* the bytes at offset at (from 0) are no valid encoding of a character
Invalid(s, at) == DecodeRune(s, at).r = "RuneError" /\ DecodeRune(s, at).size = 1

\* the byte offsets (from 0) at which a range loop over s starts a character
RECURSIVE RuneStartsFrom(_, _)
RuneStartsFrom(s, at) ==
    IF at >= Len(s) THEN {}
    ELSE {at} \cup RuneStartsFrom(s, at + DecodeRune(s, at).size)

RuneStarts(s) == RuneStartsFrom(s, 0)

\* utf8.RuneCountInString
RuneCount(s) == Cardinality(RuneStarts(s))

\* a string of the model is built from these characters
StrChars == {"x", "BQ", "\"", "\\", "{", ":", "U+00E9"}

CharBytes(c) ==
    IF c = "U+00E9" THEN EAcute ELSE IF c = "U+FFFD" THEN Replacement ELSE <<c>>

RECURSIVE Bytes(_)
Bytes(cs) == IF cs = <<>> THEN <<>> ELSE CharBytes(Head(cs)) \o Bytes(Tail(cs))

Strings == {Bytes(cs) : cs \in SeqUpTo(StrChars, MaxStrLen)}

(***************************************************************************)
(* quoteString                                                              *)
(***************************************************************************)
\* strconv.CanBackquote: no backtick, no control character, valid UTF-8
CanBackquote(s) ==
    \A at \in RuneStarts(s) :
        ~Invalid(s, at) /\ DecodeRune(s, at).r \notin {"BQ", "\n"}

\* strconv.Quote without the delimiters
RECURSIVE Escape(_)
Escape(s) ==
    IF s = <<>> THEN <<>>
    ELSE LET d == DecodeRune(s, 0)
             rest == Escape(SubSeq(s, d.size + 1, Len(s)))
         IN CASE Invalid(s, 0)     -> <<"\\", "x", "f", "f">> \o rest
              [] d.r = "\""        -> <<"\\", "\"">> \o rest
              [] d.r = "\\"        -> <<"\\", "\\">> \o rest
              [] d.r = "\n"        -> <<"\\", "n">> \o rest
              [] OTHER             -> SubSeq(s, 1, d.size) \o rest

\* fmt.Sprintf("%#q", s): a raw string if the content allows it, else an
\* interpreted string
SprintfSharpQ(s) ==
    IF CanBackquote(s) THEN <<"BQ">> \o s \o <<"BQ">>
    ELSE <<"\"">> \o Escape(s) \o <<"\"">>

\* faulty variant: trim at byte offset maxLen+1 whether or not a character starts there
CutIndexBytes(q, maxLen) == maxLen + 1

\* the smallest character start of q that is greater than maxLen
CutIndex(q, maxLen) ==
    LET later == {at \in RuneStarts(q) : at > maxLen}
    IN CHOOSE at \in later : \A b \in later : at <= b

\* the loop of quoteString: trim at the first character start i > maxLen
Truncate(q, maxLen) ==
    IF maxLen > 0 /\ Len(q) - 2 > maxLen
    THEN SubSeq(q, 1, CutIndex(q, maxLen)) \o Ellipsis \o <<q[Len(q)]>>
    ELSE q

\* "Replace double quotes"
ReplaceQuotes(q) ==
    IF q[1] = "\"" /\ q[Len(q)] = "\""
    THEN <<"BQ">> \o SubSeq(q, 2, Len(q) - 1) \o <<"BQ">>
    ELSE q

quoteString(s, maxLen) == ReplaceQuotes(Truncate(SprintfSharpQ(s), maxLen))

(***************************************************************************)
(* Values.  A cell of memory holds one value; a reference names the cell    *)
(* it points to (0: nil).                                                   *)
(* A struct occupies its field cells: its address is the address of its     *)
(* first field, and a slice of structs ranges over the handles.             *)
(*   int     a number                                                       *)
(*   str     a string, err a string type that implements error              *)
(*   ptr     a pointer to cell to                                           *)
(*   iface   an interface-typed slot holding the value of cell to           *)
(*   slice   a slice over the consecutive cells lo .. lo+len-1 (lo = 0: nil)*)
(*   flat    a slice with a backing array of its own whose elements are     *)
(*           numbers: elem says []byte or []int, data lists the elements    *)
(*   map     a map with the one key "k" whose value is cell to (0: nil map) *)
(*   struct  a struct whose exported fields are the cells lo .. lo+len-1    *)
(***************************************************************************)
Val(kind, to, lo, len, elem, data) ==
    [kind |-> kind, to |-> to, lo |-> lo, len |-> len, elem |-> elem, data |-> data]

IntV          == Val("int", 0, 0, 0, "", <<"1">>)
StrV(s)       == Val("str", 0, 0, 0, "", s)
ErrV(s)       == Val("err", 0, 0, 0, "", s)
Ref(kind, c)  == Val(kind, c, 0, 0, "", <<>>)
Win(kind, lo, len) == Val(kind, 0, lo, len, "", <<>>)
Flat(elem, data)   == Val("flat", 0, 0, 0, elem, data)
NilInterface  == Ref("iface", 0)

Cells == 1..NCells

\* the windows of consecutive cells
Windows == {w \in Cells \X (1..NCells) : w[1] + w[2] - 1 <= NCells}

GraphValues ==
    {IntV}
    \cup {Ref(k, c) : k \in {"ptr", "iface", "map"}, c \in 0..NCells}
    \cup {Win("slice", w[1], w[2]) : w \in Windows} \cup {Win("slice", 0, 0)}
    \cup {Win("struct", w[1], w[2]) : w \in Windows} \cup {Win("struct", 0, 0)}

WinCells(v) == IF v.len = 0 THEN {} ELSE v.lo..(v.lo + v.len - 1)

\* A heap the caller can have built: an interface holds no interface; a
\* struct lies after its handle and does not contain itself; no cell is a
\* field of two structs, or a field and an element of a slice.
WellFormed(h) ==
    /\ \A c \in Cells : h[c].kind = "iface" /\ h[c].to # 0 => h[h[c].to].kind # "iface"
    /\ \A c \in Cells : h[c].kind = "struct" => \A f \in WinCells(h[c]) : f > c
    /\ \A c, d \in Cells :
          c # d /\ h[c].kind = "struct" /\ h[d].kind = "struct"
              => WinCells(h[c]) \cap WinCells(h[d]) = {}
    /\ \A c, d \in Cells :
          h[c].kind = "slice" /\ h[d].kind = "struct"
              => WinCells(h[c]) \cap WinCells(h[d]) = {}

\* the cells a value refers to or contains
Targets(v) ==
    CASE v.kind \in {"ptr", "iface", "map"} -> IF v.to = 0 THEN {} ELSE {v.to}
      [] v.kind \in {"slice", "struct"}     -> WinCells(v)
      [] OTHER                              -> {}

RECURSIVE ReachFrom(_, _, _)
ReachFrom(h, S, n) ==
    IF n = 0 THEN S
    ELSE ReachFrom(h, S \cup UNION {Targets(h[c]) : c \in S}, n - 1)

\* the cells reachable from value v, and from cell c in one step or more
ReachV(h, v) == ReachFrom(h, Targets(v), NCells)
ReachC(h, c) == ReachV(h, h[c])

\* the reference graph of v contains a cycle
Cyclic(h, v) == \E c \in ReachV(h, v) : c \in ReachC(h, c)

\* reflect.ValueOf(value): the dynamic value of the argument held in cell 1
ValueOf(h) ==
    IF h[1].kind = "iface" THEN (IF h[1].to = 0 THEN NilInterface ELSE h[h[1].to])
    ELSE h[1]

\* the address of cell c: a struct starts where its first field starts
RECURSIVE Addr(_, _)
Addr(h, c) ==
    IF h[c].kind = "struct" /\ h[c].len > 0 THEN Addr(h, h[c].lo) ELSE c

\* v.Pointer(): the address of the target, of the first element, of the map
\* header (map headers and private backing arrays lie apart from the cells)
Pointer(h, v) ==
    CASE v.kind = "ptr"   -> Addr(h, v.to)
      [] v.kind = "slice" -> Addr(h, v.lo)
      [] v.kind = "map"   -> NCells + v.to
      [] v.kind = "flat"  -> 2 * NCells + 1

(***************************************************************************)
(* The Printer                                                              *)
(***************************************************************************)
DefaultMaxStringLength == 200
DefaultMaxErrorLength  == 2000
DefaultMaxSliceLength  == 20

DefaultPrinter ==
    [MaxStringLength |-> DefaultMaxStringLength,
     MaxErrorLength  |-> DefaultMaxErrorLength,
     MaxSliceLength  |-> DefaultMaxSliceLength]

CircularRef == <<"CIRCULAR_REF">>

\* visitedPtrs.visit: whether ptr was in the set, and the set afterwards
visit(set, ptr) == [visited |-> ptr \in set, set |-> set \cup {ptr}]

\* faulty variant: the deferred delete is missing
NoDeferredDelete(set, defers) == set

\* defer delete(ptrs, ptr), for every ptr this call added
DeferredDelete(set, defers) == set \ defers

\* faulty variant: the test for a zero byte is missing
IsTextZeroAllowed(b) == \A at \in RuneStarts(b) : ~Invalid(b, at)

\* bytes.IndexByte(b, 0) == -1 && utf8.Valid(b)
IsText(b) == \A at \in RuneStarts(b) : ~Invalid(b, at) /\ DecodeRune(b, at).r # "00"

\* the guard of the []byte{len(n)} summary, in its two revisions
SummaryGuard(pr, n) == pr.MaxSliceLength > 0 /\ n > pr.MaxSliceLength

SummaryGuardOld(pr, n) == n > pr.MaxSliceLength

\* fmt.Fprint of one byte as a number
ByteText(b) ==
    CASE b = "x" -> "120" [] b = "FF" -> "255" [] b = "00" -> "0"
      [] b = "C3" -> "195" [] b = "A9" -> "169" [] OTHER -> "1"

\* faulty variant: the slice length limit is applied one element late
ElemLimitLate(pr, k) == pr.MaxSliceLength > 0 /\ k > pr.MaxSliceLength

\* the guard of the ellipsis element in the slice loop
ElemLimit(pr, k) == pr.MaxSliceLength > 0 /\ k >= pr.MaxSliceLength

(***************************************************************************)
(* Printer.Sprint and Printer.fprint, one step at a time.  A frame is one   *)
(* active call of fprint:                                                   *)
(*   v       the value (replaced while the dereference loop unwraps it)     *)
(*   pc      enter, deref, loop, ret                                        *)
(*   i       the loop index                                                 *)
(*   defers  the tracker entries this call deletes when it returns          *)
(* and, as history: arg (the value on entry), idx (its index in the         *)
(* caller's loop), entry (the tracker on entry), start (the length of the   *)
(* output on entry), act (the addresses this call is rendering), fresh      *)
(* (the pointer checked on entry has not been unwrapped yet), seen (the     *)
(* values the dereference loop has unwrapped) and kids (the finished calls  *)
(* this call made).                                                         *)
(***************************************************************************)
Frame(v, idx, set, at) ==
    [v |-> v, pc |-> "enter", i |-> 0, defers |-> {},
     arg |-> v, idx |-> idx, entry |-> set, start |-> at,
     act |-> {}, fresh |-> FALSE, seen |-> {}, kids |-> <<>>]

Top == stack[Len(stack)]

SetTop(f) == [stack EXCEPT ![Len(stack)] = f]

\* the addresses some active call is rendering
AllActive == UNION {stack[k].act : k \in DOMAIN stack}

IsRef(v) == v.kind \in {"ptr", "iface"}

\* Sprint -> fprintIndent without indent arguments
Sprint ==
    /\ rpc = "start"
    /\ IF ValueOf(heap) = NilInterface
       THEN /\ out' = out \o <<"nil">>
            /\ rpc' = "done"
            /\ UNCHANGED <<stack, ptrs>>
       ELSE /\ stack' = <<Frame(ValueOf(heap), 0, {}, Len(out))>>
            /\ ptrs' = {}
            /\ rpc' = "fprint"
            /\ out' = out
    /\ UNCHANGED <<heap, p, impl, lastRet, missed>>
    /\ UNCHANGED <<qvars, ivars, mvars, hvars, wvars>>

\* fprint: the pointer check on entry
FprintEnter ==
    /\ rpc = "fprint" /\ Top.pc = "enter"
    /\ missed' = (missed \/ (Top.v.kind = "ptr" /\ Top.v.to # 0
                              /\ Pointer(heap, Top.v) \notin ptrs
                              /\ Pointer(heap, Top.v) \in AllActive))
    /\ LET v == Top.v IN
       IF v.kind = "ptr"
       THEN IF v.to = 0
            THEN /\ out' = out \o <<"nil">>
                 /\ stack' = SetTop([Top EXCEPT !.pc = "ret"])
                 /\ ptrs' = ptrs
            ELSE LET r == visit(ptrs, Pointer(heap, v)) IN
                 IF r.visited
                 THEN /\ out' = out \o CircularRef
                      /\ stack' = SetTop([Top EXCEPT !.pc = "ret"])
                      /\ ptrs' = ptrs
                 ELSE /\ ptrs' = r.set
                      /\ stack' = SetTop([Top EXCEPT !.pc = "deref",
                                                    !.defers = {Pointer(heap, v)},
                                                    !.act = {Pointer(heap, v)},
                                                    !.fresh = TRUE])
                      /\ out' = out
       ELSE /\ stack' = SetTop([Top EXCEPT !.pc = "deref"])
            /\ UNCHANGED <<out, ptrs>>
    /\ UNCHANGED <<heap, p, impl, rpc, lastRet>>
    /\ UNCHANGED <<qvars, ivars, mvars, hvars, wvars>>

\* fprint: one iteration of the dereference loop
FprintDeref ==
    /\ rpc = "fprint" /\ Top.pc = "deref"
    /\ IsRef(Top.v) /\ Top.v.to # 0
    /\ LET v == Top.v
           a == IF v.kind = "ptr" THEN {Pointer(heap, v)} ELSE {}
       IN /\ stack' = SetTop([Top EXCEPT !.v = heap[v.to],
                                         !.fresh = FALSE,
                                         !.act = @ \cup a,
                                         !.seen = @ \cup {v}])
          /\ missed' = (missed \/ (v.kind = "ptr" /\ ~Top.fresh
                                    /\ Pointer(heap, v) \in AllActive))
    /\ UNCHANGED <<heap, p, impl, rpc, ptrs, out, lastRet>>
    /\ UNCHANGED <<qvars, ivars, mvars, hvars, wvars>>

\* the text a call that writes once and returns puts out, for the kinds
\* without elements
LeafText(v) ==
    CASE IsRef(v)         -> <<"nil">>
      [] v.kind = "int"   -> v.data
      [] v.kind = "str"   -> quoteString(v.data, p.MaxStringLength)
      [] v.kind = "err"   -> <<"error(">> \o quoteString(v.data, p.MaxErrorLength) \o <<")">>

\* the []byte{len(n)} summary applies
Summarised(v) ==
    /\ v.kind = "flat" /\ v.elem = "byte" /\ ~IsText(v.data)
    /\ IF impl = "printer.go" THEN SummaryGuardOld(p, Len(v.data))
                              ELSE SummaryGuard(p, Len(v.data))

\* fprint: the switch on the kind, up to the first element or the return
FprintKind ==
    /\ rpc = "fprint" /\ Top.pc = "deref"
    /\ ~(IsRef(Top.v) /\ Top.v.to # 0)
    /\ LET v == Top.v
           ret(text) == /\ out' = out \o text
                        /\ stack' = SetTop([Top EXCEPT !.pc = "ret"])
                        /\ ptrs' = ptrs
           open(text, r) == /\ out' = out \o text
                            /\ ptrs' = r.set
                            /\ stack' = SetTop([Top EXCEPT !.pc = "loop", !.i = 0,
                                                   !.defers = @ \cup {Pointer(heap, v)},
                                                   !.act = @ \cup {Pointer(heap, v)}])
       IN CASE v.kind \in {"ptr", "iface", "int", "str", "err"} -> ret(LeafText(v))
            [] v.kind = "slice" ->
                 IF v.lo = 0 THEN ret(<<"nil">>)
                 ELSE LET r == visit(ptrs, Pointer(heap, v)) IN
                      IF r.visited THEN ret(CircularRef) ELSE open(<<"[">>, r)
            [] v.kind = "flat" ->
                 LET r == visit(ptrs, Pointer(heap, v)) IN
                 IF r.visited THEN ret(CircularRef)
                 ELSE IF v.elem = "byte" /\ IsText(v.data)
                 THEN /\ out' = out \o quoteString(v.data, p.MaxStringLength)
                      /\ ptrs' = r.set
                      /\ stack' = SetTop([Top EXCEPT !.pc = "ret",
                                             !.defers = @ \cup {Pointer(heap, v)}])
                 ELSE IF Summarised(v)
                 THEN /\ out' = out \o <<"[]byte{len(", ToString(Len(v.data)), ")}">>
                      /\ ptrs' = r.set
                      /\ stack' = SetTop([Top EXCEPT !.pc = "ret",
                                             !.defers = @ \cup {Pointer(heap, v)}])
                 ELSE open(<<"[">>, r)
            [] v.kind = "map" ->
                 IF v.to = 0 THEN ret(<<"nil">>)
                 ELSE LET r == visit(ptrs, Pointer(heap, v)) IN
                      IF r.visited THEN ret(CircularRef) ELSE open(<<"{">>, r)
            [] v.kind = "struct" ->
                 /\ out' = out \o <<"T", "{">>
                 /\ stack' = SetTop([Top EXCEPT !.pc = "loop", !.i = 0])
                 /\ ptrs' = ptrs
    /\ UNCHANGED <<heap, p, impl, rpc, lastRet, missed>>
    /\ UNCHANGED <<qvars, ivars, mvars, hvars, wvars>>

\* the number of elements the loop of a value runs over
NumElems(v) ==
    CASE v.kind = "flat" -> Len(v.data)
      [] v.kind = "map"  -> 1
      [] OTHER           -> v.len

\* the value of element k (from 0)
Elem(v, k) ==
    CASE v.kind = "flat" -> Val("int", 0, 0, 0, "",
                                <<IF v.elem = "byte" THEN ByteText(v.data[k + 1])
                                                     ELSE v.data[k + 1]>>)
      [] v.kind = "map"  -> heap[v.to]
      [] OTHER           -> heap[v.lo + k]

\* what the loop writes before element k: the separator and, for a map,
\* the rendered key, for a struct, the field name
Before(v, k) ==
    CASE v.kind = "map"    -> quoteString(<<"k">>, p.MaxStringLength) \o <<":">>
      [] v.kind = "struct" -> (IF k > 0 THEN <<";">> ELSE <<>>) \o <<"F", ":">>
      [] OTHER             -> IF k > 0 THEN <<",">> ELSE <<>>

Closing(v) == IF v.kind \in {"map", "struct"} THEN <<"}">> ELSE <<"]">>

\* a call of fprint on the same value with the same tracker is already active:
\* the recursion repeats itself until the stack is exhausted
Recurs(v, set) == \E k \in DOMAIN stack : stack[k].arg = v /\ stack[k].entry = set

\* fprint: one iteration of the loop over the elements, up to the call of
\* fprint for the element; after the last element the closing bracket
FprintNext ==
    /\ rpc = "fprint" /\ Top.pc = "loop"
    /\ LET v == Top.v
           k == Top.i
       IN IF k >= NumElems(v)
          THEN /\ out' = out \o Closing(v)
               /\ stack' = SetTop([Top EXCEPT !.pc = "ret"])
               /\ rpc' = rpc
          ELSE IF v.kind \in {"slice", "flat"} /\ ElemLimit(p, k)
          THEN /\ out' = out \o Before(v, k) \o Ellipsis \o Closing(v)
               /\ stack' = SetTop([Top EXCEPT !.pc = "ret"])
               /\ rpc' = rpc
          ELSE /\ out' = out \o Before(v, k)
               /\ IF Recurs(Elem(v, k), ptrs)
                  THEN /\ rpc' = "stack overflow"
                       /\ stack' = stack
                  ELSE /\ rpc' = rpc
                       /\ stack' = Append(SetTop([Top EXCEPT !.i = k + 1]),
                                          Frame(Elem(v, k), k, ptrs, Len(out')))
    /\ UNCHANGED <<heap, p, impl, ptrs, lastRet, missed>>
    /\ UNCHANGED <<qvars, ivars, mvars, hvars, wvars>>

\* fprint returns: the deferred deletes run, the caller goes on
FprintReturn ==
    /\ rpc = "fprint" /\ Top.pc = "ret"
    /\ ptrs' = DeferredDelete(ptrs, Top.defers)
    /\ lastRet' = [entry |-> Top.entry, after |-> ptrs']
    /\ LET kid == [arg |-> Top.arg, idx |-> Top.idx,
                   text |-> SubSeq(out, Top.start + 1, Len(out))]
           rest == SubSeq(stack, 1, Len(stack) - 1)
       IN IF rest = <<>>
          THEN /\ stack' = rest
               /\ rpc' = "done"
          ELSE /\ stack' = [rest EXCEPT ![Len(rest)].kids = Append(@, kid)]
               /\ rpc' = rpc
    /\ UNCHANGED <<heap, p, impl, out, missed>>
    /\ UNCHANGED <<qvars, ivars, mvars, hvars, wvars>>

NextRender ==
    \/ Sprint
    \/ FprintEnter
    \/ FprintDeref
    \/ FprintKind
    \/ FprintNext
    \/ FprintReturn

(***************************************************************************)
(* Indent, one loop iteration at a time.  i and unwritten count from 0 as   *)
(* in the source.                                                           *)
(***************************************************************************)
SrcChars == {"{", "}", ":", ";", "BQ", "\"", "\\", "x", "U+00E9", "U+FFFD", "FF"}

Sources == {Bytes(cs) : cs \in SeqUpTo(SrcChars, MaxSrcLen)}

IndentUnits == {Rep(<<" ">>, n) : n \in 0..MaxIndentLen}

LinePrefixes == SeqUpTo({<<"/">>}, MaxPrefix)

\* faulty variant: the last byte of the piece is left out
SliceShort(s, a, b) == SubSeq(s, a + 1, b - 1)

\* source[a:b]
Slice(s, a, b) == SubSeq(s, a + 1, b)

\* newLineIndent[:len(newLineIndent)-len(indent)] under its guard
Shrink(nl, unit) == IF Len(nl) >= Len(unit) THEN SubSeq(nl, 1, Len(nl) - Len(unit)) ELSE nl

\* faulty variant: a brace pair is handled like any opening brace
NoEmptyPair(s, at) == FALSE

\* i+1 < len(source) && source[i+1] == '}'
EmptyPair(s, at) == at + 1 < Len(s) /\ s[at + 2] = "}"

\* faulty variant: a backslash never takes the next byte with it
EscSizeOne(s, at, size) == size

\* faulty variant: the next byte is skipped without looking for it
EscSizeUnguarded(s, at, size) == 2

\* rSize after a backslash in an interpreted string
EscSize(s, at, size) ==
    IF at + 1 < Len(s) /\ s[at + 2] \in {"\\", "\""} THEN 2 ELSE size

\* faulty variant: what is left unwritten at the end is dropped
NoRemaining(s, from) == <<>>

\* source[unwritten:]
Remaining(s, from) == Slice(s, from, Len(s))

IndentStep ==
    /\ ipc = "loop" /\ i < Len(source)
    /\ LET d    == DecodeRune(source, i)
           r    == d.r
           res0 == IF i = 0 THEN result \o Concat(linePrefix) ELSE result
           next == i + d.size
           keep == /\ UNCHANGED <<newLineIndent, unwritten, depth, lastNL>>
                   /\ result' = res0
                   /\ i' = next
       IN IF r = "RuneError"
          THEN /\ ipc' = "flush"
               /\ UNCHANGED <<state, newLineIndent, result, unwritten, i, depth, lastNL>>
          ELSE /\ ipc' = ipc
               /\ CASE state = "stateDefault" /\ r = ":" ->
                         /\ result' = res0 \o Slice(source, unwritten, next) \o <<" ">>
                         /\ unwritten' = next
                         /\ i' = next
                         /\ UNCHANGED <<state, newLineIndent, depth, lastNL>>
                    [] state = "stateDefault" /\ r = ";" ->
                         /\ result' = res0 \o Slice(source, unwritten, i) \o newLineIndent
                         /\ unwritten' = i + 1
                         /\ i' = next
                         /\ lastNL' = [text |-> newLineIndent, depth |-> depth]
                         /\ UNCHANGED <<state, newLineIndent, depth>>
                    [] state = "stateDefault" /\ r = "{" ->
                         IF EmptyPair(source, i)
                         THEN /\ result' = res0 \o Slice(source, unwritten, next) \o <<"}">>
                              /\ unwritten' = next + 1
                              /\ i' = i + 1 + d.size
                              /\ UNCHANGED <<state, newLineIndent, depth, lastNL>>
                         ELSE /\ newLineIndent' = newLineIndent \o indent
                              /\ result' = res0 \o Slice(source, unwritten, next)
                                                \o newLineIndent'
                              /\ unwritten' = next
                              /\ i' = next
                              /\ depth' = depth + 1
                              /\ lastNL' = [text |-> newLineIndent', depth |-> depth']
                              /\ state' = state
                    [] state = "stateDefault" /\ r = "}" ->
                         /\ newLineIndent' = Shrink(newLineIndent, indent)
                         /\ result' = res0 \o Slice(source, unwritten, i)
                                           \o newLineIndent' \o <<"}">>
                         /\ unwritten' = i + 1
                         /\ i' = next
                         /\ depth' = IF depth > 0 THEN depth - 1 ELSE 0
                         /\ lastNL' = [text |-> newLineIndent', depth |-> depth']
                         /\ state' = state
                    [] state = "stateDefault" /\ r = "BQ" ->
                         state' = "stateRawString" /\ keep
                    [] state = "stateDefault" /\ r = "\"" ->
                         state' = "stateEscString" /\ keep
                    [] state = "stateRawString" /\ r = "BQ" ->
                         /\ result' = res0 \o Slice(source, unwritten, next)
                         /\ unwritten' = next
                         /\ i' = next
                         /\ state' = "stateDefault"
                         /\ UNCHANGED <<newLineIndent, depth, lastNL>>
                    [] state = "stateEscString" /\ r = "\"" ->
                         /\ result' = res0 \o Slice(source, unwritten, next)
                         /\ unwritten' = next
                         /\ i' = next
                         /\ state' = "stateDefault"
                         /\ UNCHANGED <<newLineIndent, depth, lastNL>>
                    [] state = "stateEscString" /\ r = "\\" ->
                         /\ i' = i + EscSize(source, i, d.size)
                         /\ result' = res0
                         /\ UNCHANGED <<state, newLineIndent, unwritten, depth, lastNL>>
                    [] OTHER -> state' = state /\ keep
    /\ UNCHANGED <<source, indent, linePrefix, lit>>
    /\ UNCHANGED <<rvars, qvars, mvars, hvars, wvars>>

\* the loop has ended: "Append any remaining unwritten content"
IndentReturn ==
    /\ ipc = "flush" \/ (ipc = "loop" /\ i >= Len(source))
    /\ result' = result \o Remaining(source, unwritten)
    /\ ipc' = "done"
    /\ UNCHANGED <<source, indent, linePrefix, state, newLineIndent, unwritten, i,
                   depth, lastNL, lit>>
    /\ UNCHANGED <<rvars, qvars, mvars, hvars, wvars>>

NextIndent == IndentStep \/ IndentReturn

(***************************************************************************)
(* The map case of fprint for maps of several keys.  A key is a value of    *)
(* type t with the number n: the number itself for the integer types, 0 and *)
(* 1 for false and true, and for a string key the string of the decimal     *)
(* digits of n.  In a map with an interface key type keys of the types int  *)
(* and int8 can occur together.  The map holds the name of the key's type   *)
(* as the value of each key.                                                *)
(***************************************************************************)
Key(t, n) == [t |-> t, n |-> n]

IntKeys == {Key("int", n) : n \in (1..MaxKeys) \cup {10}}

AnyKeys == {Key(t, n) : t \in {"int", "int8"}, n \in 1..2}

UintKeys == {Key("uint", n) : n \in {2, 10}}

UintptrKeys == {Key("uintptr", n) : n \in {2, 16}}

StringKeys == {Key("string", n) : n \in {2, 10}}

BoolKeys == {Key("bool", n) : n \in {0, 1}}

\* the decimal and the hexadecimal digits of n
RECURSIVE Digits(_)
Digits(n) == IF n < 10 THEN <<ToString(n)>> ELSE Digits(n \div 10) \o <<ToString(n % 10)>>

HexDigit(d) ==
    IF d < 10 THEN ToString(d)
    ELSE CASE d = 10 -> "a" [] d = 11 -> "b" [] d = 12 -> "c"
           [] d = 13 -> "d" [] d = 14 -> "e" [] d = 15 -> "f"

RECURSIVE Hex(_)
Hex(n) == IF n < 16 THEN <<HexDigit(n)>> ELSE Hex(n \div 16) \o <<HexDigit(n % 16)>>

\* fprint of a key
KeyText(k) ==
    CASE k.t = "uintptr" -> <<"0", "x">> \o Hex(k.n)
      [] k.t = "string"  -> quoteString(Digits(k.n), DefaultMaxStringLength)
      [] k.t = "bool"    -> IF k.n = 0 THEN <<"false">> ELSE <<"true">>
      [] OTHER           -> Digits(k.n)

\* v.MapIndex(key), rendered
ValueText(k) == quoteString(<<k.t>>, DefaultMaxStringLength)

\* the place of a byte in the order of bytes
ByteRank(c) ==
    IF \E d \in 0..9 : ToString(d) = c
    THEN 48 + (CHOOSE d \in 0..9 : ToString(d) = c)
    ELSE CASE c = "BQ" -> 96 [] c = "x" -> 120 [] c = "true" -> 116 [] c = "false" -> 102
           [] OTHER -> 97

\* a < b for strings: the comparison of Go, byte by byte
RECURSIVE StringLess(_, _)
StringLess(a, b) ==
    IF b = <<>> THEN FALSE
    ELSE IF a = <<>> THEN TRUE
    ELSE IF Head(a) # Head(b) THEN ByteRank(Head(a)) < ByteRank(Head(b))
    ELSE StringLess(Tail(a), Tail(b))

\* ip.String() < jp.String()
TextLess(a, b) == StringLess(a, b)

\* the less function sortReflectValues picks for the kind of the key type;
\* the kind Uintptr is not among its cases
Less(kind, a, b) ==
    CASE kind \in {"int", "uint"} -> a.n < b.n
      [] kind = "string"          -> StringLess(Digits(a.n), Digits(b.n))
      [] kind = "bool"            -> a.n = 0 /\ b.n = 1
      [] OTHER                    -> TextLess(KeyText(a), KeyText(b))

\* sort.Slice on fewer than 12 elements: insertion sort
RECURSIVE Insert(_, _, _)
Insert(kind, sorted, x) ==
    IF sorted = <<>> \/ ~Less(kind, x, sorted[Len(sorted)])
    THEN Append(sorted, x)
    ELSE Append(Insert(kind, SubSeq(sorted, 1, Len(sorted) - 1), x), sorted[Len(sorted)])

RECURSIVE InsertionSort(_, _)
InsertionSort(kind, vals) ==
    IF vals = <<>> THEN <<>>
    ELSE Insert(kind, InsertionSort(kind, SubSeq(vals, 1, Len(vals) - 1)), vals[Len(vals)])

sortReflectValues(kind, vals) ==
    IF Len(vals) < 2 THEN vals ELSE InsertionSort(kind, vals)

\* the orders in which the runtime may enumerate the keys
Enumerations(keys) ==
    {e \in [1..Cardinality(keys) -> keys] : \A a, b \in DOMAIN e : a # b => e[a] # e[b]}

RECURSIVE EntryTexts(_, _)
EntryTexts(keys, k) ==
    IF k > Len(keys) THEN <<>>
    ELSE (IF k > 1 THEN <<";">> ELSE <<>>) \o KeyText(keys[k]) \o <<":">>
             \o ValueText(keys[k]) \o EntryTexts(keys, k + 1)

\* mapKeys := v.MapKeys()
MapKeys ==
    /\ mpc = "MapKeys"
    /\ mapKeys' \in Enumerations(mkeys)
    /\ mpc' = "sort"
    /\ UNCHANGED <<mkind, mkeys, mouts>>
    /\ UNCHANGED <<rvars, qvars, ivars, hvars, wvars>>

\* p.sortReflectValues(mapKeys, t.Key(), ptrs)
SortKeys ==
    /\ mpc = "sort"
    /\ mapKeys' = sortReflectValues(mkind, mapKeys)
    /\ mpc' = "write"
    /\ UNCHANGED <<mkind, mkeys, mouts>>
    /\ UNCHANGED <<rvars, qvars, ivars, hvars, wvars>>

\* the loop over the sorted keys; the map is then rendered a second time
WriteEntries ==
    /\ mpc = "write"
    /\ mouts' = Append(mouts, <<"{">> \o EntryTexts(mapKeys, 1) \o <<"}">>)
    /\ mpc' = IF Len(mouts') < 2 THEN "MapKeys" ELSE "done"
    /\ UNCHANGED <<mkind, mkeys, mapKeys>>
    /\ UNCHANGED <<rvars, qvars, ivars, hvars, wvars>>

NextMap == MapKeys \/ SortKeys \/ WriteEntries

(***************************************************************************)
(* quoteString as a call                                                    *)
(***************************************************************************)
QuoteString ==
    /\ qpc = "call"
    /\ qres' = quoteString(qs, qmax)
    /\ qpc' = "done"
    /\ UNCHANGED <<qs, qmax>>
    /\ UNCHANGED <<rvars, ivars, mvars, hvars, wvars>>

NextQuote == QuoteString

(***************************************************************************)
(* Printer.fprint on one value slot: the nil check, the custom formatter    *)
(* hook, Nullable, context.Context, the dereference loop and the kind       *)
(* switch.  The slot holds a base value (a nil pointer, a string, a         *)
(* context, an object with methods), either directly, in an interface-      *)
(* typed slot (a []any element, a field of type any/error/context.Context)  *)
(* or behind a pointer to the variable that holds it.                       *)
(***************************************************************************)
HookWraps == {"none", "Interface", "Pointer"}

\* the interfaces fprint asks a value for
Interfaces == {"PrintableWithResult", "Printable", "Stringer", "Nullable", "Context"}

\* PrintableWithResult and Printable both name their method PrettyPrint: no
\* type has both
MethodSets ==
    {ms \in SUBSET Interfaces : ~({"PrintableWithResult", "Printable"} \subseteq ms)}

\* k: what the base value is (a nil pointer, a non-nil pointer to a struct,
\* a string, a struct value); meths: the interfaces its type implements;
\* addrMeths: those only a pointer to it implements (pointer receivers of a
\* struct value); s: the string content, for a context the text of Err()
\* (empty when Err() is nil)
HookBase(k, meths, addrMeths, s, secret) ==
    [k |-> k, meths |-> meths, addrMeths |-> addrMeths, s |-> s, secret |-> secret]

Secrets == {<<"s", "1">>, <<"s", "2">>}

Formatters == {"PrintableWithResult", "Printable", "Stringer"}

\* the methods of a struct type, by receiver: value receivers, pointer receivers
ValMethods ==
    {pr \in (SUBSET Formatters) \X (SUBSET Formatters) :
        pr[1] \cap pr[2] = {} /\ (pr[1] \cup pr[2]) \in MethodSets}

HookBases ==
    {HookBase("nilptr", ms, {}, <<>>, FALSE) : ms \in MethodSets}
    \cup {HookBase("ptr", ms, {}, <<>>, FALSE) : ms \in MethodSets}
    \cup {HookBase("ptr", ms, {}, <<"e", "r", "r">>, FALSE) :
             ms \in {x \in MethodSets : "Context" \in x}}
    \cup {HookBase("String", {}, {}, s, TRUE) : s \in Secrets}
    \cup {HookBase("String", {}, {}, <<"o", "k">>, FALSE)}
    \cup {HookBase("val", pr[1], pr[2], <<>>, FALSE) : pr \in ValMethods}

\* addressable: v.CanAddr(), as for an element of a slice; visited: the
\* pointer is in the visitedPtrs the call was given (it is being rendered
\* further up the call stack)
HookValues ==
    {[wrap |-> w, addressable |-> a, visited |-> vi, base |-> b] :
        w \in HookWraps, a \in BOOLEAN, vi \in BOOLEAN, b \in HookBases}
    \ {v \in [wrap : HookWraps, addressable : BOOLEAN, visited : {TRUE}, base : HookBases] :
          v.wrap = "Interface" \/ (v.wrap = "none" /\ v.base.k # "ptr")}

\* v.Kind() as fprint sees it on entry
Kind(v) ==
    CASE v.wrap = "Interface" -> "Interface"
      [] v.wrap = "Pointer"   -> "Pointer"
      [] OTHER -> CASE v.base.k = "String" -> "String"
                    [] v.base.k = "val"    -> "Struct"
                    [] OTHER               -> "Pointer"

\* v.IsNil() of a value of Kind Pointer: a pointer to a variable is never nil
IsNil(v) == v.wrap = "none" /\ v.base.k = "nilptr"

NilReceiver(v) == v.base.k = "nilptr"

\* v.Interface().(T): the dynamic value of the slot is asserted to T.  A
\* pointer to a struct value has the methods of both receivers; a pointer to
\* a pointer, to a string or to an interface has none.
OnValue(v, T) ==
    IF v.wrap = "Pointer"
    THEN v.base.k = "val" /\ T \in v.base.meths \cup v.base.addrMeths
    ELSE T \in v.base.meths

\* v.Addr().Interface().(T)
OnAddress(v, T) ==
    v.wrap = "none" /\ v.base.k = "val" /\ T \in v.base.meths \cup v.base.addrMeths

tryCastReflectValue(v, T) == OnValue(v, T) \/ (v.addressable /\ OnAddress(v, T))

\* faulty variant: PrettyString is asked for before the side-effecting PrettyPrint
PrintFuncForStringerFirst(v) ==
    CASE tryCastReflectValue(v, "PrintableWithResult") -> "PrintableWithResult"
      [] tryCastReflectValue(v, "Stringer") -> "Stringer"
      [] tryCastReflectValue(v, "Printable") -> "Printable"
      [] OTHER -> "nil"

PrintFuncForPrintable(v) ==
    IF tryCastReflectValue(v, "PrintableWithResult") THEN "PrintableWithResult"
    ELSE IF tryCastReflectValue(v, "Printable") THEN "Printable"
    ELSE IF tryCastReflectValue(v, "Stringer") THEN "Stringer"
    ELSE "nil"

\* the README's masking hook
MaskingPrintFuncFor(v) ==
    IF Kind(v) = "String" /\ v.base.secret THEN "redact" ELSE PrintFuncForPrintable(v)

\* faulty variant: a hook that returns nil is followed by the default resolver
printFuncForFallback(pr, v) ==
    CASE pr.PrintFuncFor = "mask" -> MaskingPrintFuncFor(v)
      [] OTHER -> PrintFuncForPrintable(v)

\* p.PrintFuncFor: not set ("nil"), the README's masking hook, or a hook
\* that returns nil for every value
printFuncFor(pr, v) ==
    CASE pr.PrintFuncFor = "nil"  -> PrintFuncForPrintable(v)
      [] pr.PrintFuncFor = "mask" -> MaskingPrintFuncFor(v)
      [] OTHER                    -> "nil"

Redacted == <<"BQ", "***REDACTED***", "BQ">>

\* what the formatter found as T writes
FormatterText(T) == <<"text of ", T>>

Invoked(T, v, ret) == [m |-> T, nilReceiver |-> NilReceiver(v), ret |-> ret]

\* the limit the package-level Sprint called in the context case applies:
\* that of DefaultPrinter, not that of the Printer the render was called on
SprintLimit(own, default) == default.MaxStringLength

ContextText(err, maxLen) ==
    <<"Context{">>
    \o (IF err = <<>> THEN <<>> ELSE <<"Err:">> \o quoteString(err, maxLen))
    \o <<"}">>

HookPrinters ==
    {[MaxStringLength |-> l, MaxErrorLength |-> DefaultMaxErrorLength,
      MaxSliceLength |-> DefaultMaxSliceLength, PrintFuncFor |-> f] :
        l \in {DefaultMaxStringLength, MaxLimit}, f \in {"nil", "mask", "returnsNil"}}

\* faulty variant: IsNull is asked before the custom formatter
DispatchNullableFirst == <<"Nullable", "printFuncFor", "Context", "deref">>

\* the order of the checks of fprint that follow the pointer check
Dispatch == <<"printFuncFor", "Nullable", "Context", "deref">>

NextCheck(pc) == Dispatch[(CHOOSE k \in DOMAIN Dispatch : Dispatch[k] = pc) + 1]

HookPointerCheck ==
    /\ hpc = "fprint"
    /\ IF Kind(hv) = "Pointer"
       THEN IF IsNil(hv) THEN hout' = <<"nil">> /\ hpc' = "done"
            ELSE IF hv.visited THEN hout' = CircularRef /\ hpc' = "done"
            ELSE hout' = hout /\ hpc' = Dispatch[1]
       ELSE hout' = hout /\ hpc' = Dispatch[1]
    /\ UNCHANGED <<hv, hp, gDefault, hcalls>>
    /\ UNCHANGED <<rvars, qvars, ivars, mvars, wvars>>

HookPrintFunc ==
    /\ hpc = "printFuncFor"
    /\ LET f == printFuncFor(hp, hv) IN
       CASE f = "redact" ->
              hout' = Redacted /\ hpc' = "done" /\ hcalls' = hcalls
         [] f \in Formatters ->
              /\ hcalls' = hcalls \cup {Invoked(f, hv, "")}
              /\ \/ hout' = FormatterText(f) /\ hpc' = "done"
                 \/ NilReceiver(hv) /\ hout' = hout /\ hpc' = "panic"
         [] OTHER ->
              hpc' = NextCheck(hpc) /\ UNCHANGED <<hout, hcalls>>
    /\ UNCHANGED <<hv, hp, gDefault>>
    /\ UNCHANGED <<rvars, qvars, ivars, mvars, wvars>>

HookNullable ==
    /\ hpc = "Nullable"
    /\ IF tryCastReflectValue(hv, "Nullable")
       THEN \/ /\ hcalls' = hcalls \cup {Invoked("Nullable", hv, "true")}
               /\ hout' = <<"null">> /\ hpc' = "done"
            \/ /\ hcalls' = hcalls \cup {Invoked("Nullable", hv, "false")}
               /\ hout' = hout /\ hpc' = NextCheck(hpc)
            \/ /\ NilReceiver(hv)
               /\ hcalls' = hcalls \cup {Invoked("Nullable", hv, "")}
               /\ hout' = hout /\ hpc' = "panic"
       ELSE hpc' = NextCheck(hpc) /\ UNCHANGED <<hout, hcalls>>
    /\ UNCHANGED <<hv, hp, gDefault>>
    /\ UNCHANGED <<rvars, qvars, ivars, mvars, wvars>>

HookContext ==
    /\ hpc = "Context"
    /\ IF tryCastReflectValue(hv, "Context")
       THEN /\ hcalls' = hcalls \cup {Invoked("Context", hv, "")}
            /\ \/ /\ hout' = ContextText(hv.base.s, SprintLimit(hp, gDefault))
                  /\ hpc' = "done"
               \/ NilReceiver(hv) /\ hout' = hout /\ hpc' = "panic"
       ELSE hpc' = NextCheck(hpc) /\ UNCHANGED <<hout, hcalls>>
    /\ UNCHANGED <<hv, hp, gDefault>>
    /\ UNCHANGED <<rvars, qvars, ivars, mvars, wvars>>

\* what the dereference loop and the kind switch write for the value
KindText(v, pr) ==
    CASE v.base.k = "nilptr" -> <<"nil">>
      [] v.base.k = "String" -> quoteString(v.base.s, pr.MaxStringLength)
      [] OTHER               -> <<"T{", "}">>

\* the dereference loop and the kind switch
HookKind ==
    /\ hpc = "deref"
    /\ hout' = KindText(hv, hp)
    /\ hpc' = "done"
    /\ UNCHANGED <<hv, hp, gDefault, hcalls>>
    /\ UNCHANGED <<rvars, qvars, ivars, mvars, wvars>>

\* another goroutine assigns to the package-level DefaultPrinter while the render runs
SetDefaultPrinter ==
    /\ hpc \in {"fprint", "printFuncFor", "Nullable", "Context", "deref"}
    /\ gDefault = DefaultPrinter
    /\ \E l \in 1..MaxLimit : gDefault' = [gDefault EXCEPT !.MaxStringLength = l]
    /\ UNCHANGED <<hv, hp, hpc, hout, hcalls>>
    /\ UNCHANGED <<rvars, qvars, ivars, mvars, wvars>>

NextHook ==
    \/ HookPointerCheck \/ HookPrintFunc \/ HookNullable \/ HookContext \/ HookKind
    \/ SetDefaultPrinter

(***************************************************************************)
(* Fprint and Fprintln on a sink that can fail: the byte counts and the     *)
(* error checks of fprintIndent and fprint, the countingWriter put around   *)
(* the sink for a Printable, and the newline of Fprintln.                   *)
(***************************************************************************)
Min(a, b) == IF a < b THEN a ELSE b

\* an io.Writer: the call numbered failAt accepts at most part bytes and
\* returns an error; a sticky writer then fails every later call, another
\* one works again.  failAt = 0: the writer never fails (bytes.Buffer).
Writer(failAt, part, sticky) ==
    [failAt |-> failAt, part |-> part, sticky |-> sticky,
     writes |-> 0, accepted |-> <<>>, failed |-> FALSE, late |-> 0]

Buffer == Writer(0, 0, FALSE)

Sinks == {Writer(f, pt, st) : f \in 0..MaxWrites, pt \in 0..1, st \in BOOLEAN}

\* w.Write(b): what it returns and the writer afterwards; late counts the
\* calls that arrive after a call has failed
Write(w, b) ==
    LET k     == w.writes + 1
        fails == w.failAt = k \/ (w.sticky /\ w.failed)
        n     == IF ~fails THEN Len(b)
                 ELSE IF w.failAt = k THEN Min(w.part, Len(b)) ELSE 0
    IN [n |-> n, err |-> fails,
        w |-> [w EXCEPT !.writes = k,
                        !.accepted = @ \o SubSeq(b, 1, n),
                        !.failed = @ \/ fails,
                        !.late = @ + (IF w.failed THEN 1 ELSE 0)]]

\* faulty variant: the bytes of a write are not added
CountNothing(n, n2) == n

\* countingWriter.Write: w.n += n
CountWrite(n, n2) == n + n2

\* countingWriter.Write
countingWriterWrite(cw, b) ==
    LET r == Write(cw.w, b)
    IN [n |-> CountWrite(cw.n, r.n), err |-> cw.err \/ r.err, w |-> r.w, last |-> r.err]

\* Printable.PrettyPrint(cw): the method writes its texts one after the
\* other; it returns nothing, and whether it looks at the error of a write
\* (stops) is its own choice
RECURSIVE PrettyPrint(_, _, _)
PrettyPrint(texts, stops, cw) ==
    IF texts = <<>> THEN cw
    ELSE LET cw2 == countingWriterWrite(cw, Head(texts))
         IN IF stops /\ cw2.last THEN cw2 ELSE PrettyPrint(Tail(texts), stops, cw2)

\* printableWithResultAdapter.PrettyPrint
printableWithResultAdapter(texts, stops, w) ==
    LET cw == PrettyPrint(texts, stops, [n |-> 0, err |-> FALSE, w |-> w, last |-> FALSE])
    IN [n |-> cw.n, err |-> cw.err, w |-> cw.w]

\* PrintableWithResult.PrettyPrint: writes its texts, returns at the first
\* failed write with the bytes written so far; fails: it returns an error
\* of its own after its writes
RECURSIVE PrettyPrintWithResult(_, _, _, _)
PrettyPrintWithResult(texts, fails, n, w) ==
    IF texts = <<>> THEN [n |-> n, err |-> fails, w |-> w]
    ELSE LET r == Write(w, Head(texts))
         IN IF r.err THEN [n |-> n + r.n, err |-> TRUE, w |-> r.w]
            ELSE PrettyPrintWithResult(Tail(texts), fails, n + r.n, r.w)

\* the values rendered: k is what fprint finds
WValue(k, texts, flag, elems) ==
    [k |-> k, texts |-> texts, flag |-> flag, elems |-> elems, anon |-> {}]

\* a struct: the names of its fields in declaration order (for an embedded
\* field the name of its type), which of them are embedded, whether the
\* struct type implements error, and the field values
Struct(names, anon, isError, elems) ==
    [k |-> "Struct", texts |-> names, flag |-> isError, elems |-> elems, anon |-> anon]

\* faulty variant: every field counts as exported
IsExportedAll(name) == TRUE

\* token.IsExported(name): the name starts with an upper-case letter
IsExported(name) == name[1] \in {"A", "B", "C", "D"}

hasExportedFields(v) == \E idx \in DOMAIN v.texts : IsExported(v.texts[idx])

\* err.Error() of a struct that implements error
ErrorMessage == <<"x", "x", "x">>

HookTexts == {<< <<"p">> >>, << <<"p">>, <<"q", "r">> >>}

\* a value whose kind is none of those the kind switch has a case for
Unsupported == WValue("Unsupported", <<>>, FALSE, <<>>)

WLeaves ==
    {Unsupported, WValue("Int", << <<"1">> >>, FALSE, <<>>), WValue("nilPointer", << <<"n", "i", "l">> >>, FALSE, <<>>)}
    \cup {WValue("Printable", t, st, <<>>) : t \in HookTexts, st \in BOOLEAN}
    \cup {WValue("PrintableWithResult", t, f, <<>>) : t \in HookTexts, f \in BOOLEAN}
    \cup {WValue("Stringer", << t >>, FALSE, <<>>) : t \in {<<"s">>, <<"s", ";">>}}

\* what the fields of a struct and the elements of an array are
WElems ==
    {WValue("Int", << <<"1">> >>, FALSE, <<>>),
     WValue("Printable", << <<"p">>, <<"q", "r">> >>, FALSE, <<>>),
     WValue("Printable", << <<"p">>, <<"q", "r">> >>, TRUE, <<>>),
     WValue("PrintableWithResult", << <<"p">> >>, TRUE, <<>>),
     WValue("Stringer", << <<"s">> >>, FALSE, <<>>),
     Unsupported}

FieldName(idx) == <<"A", "B", "C", "D">>[idx]

WValues ==
    WLeaves
    \cup {WValue("Array", <<>>, FALSE, es) :
             es \in UNION {[1..n -> WElems] : n \in 1..MaxFields}}
    \cup {Struct([idx \in DOMAIN es |-> <<FieldName(idx)>>], {}, FALSE, es) :
             es \in UNION {[1..n -> WElems] : n \in 1..MaxFields}}

\* structs with exported, unexported and embedded fields, with and without Error()
StructValues ==
    UNION {{Struct(names, anon, e, es) :
               names \in [1..n -> {<<"A">>, <<"b">>, <<"C", "d">>}],
               anon \in SUBSET (1..n), e \in BOOLEAN,
               es \in [1..n -> {WValue("Int", << <<"1">> >>, FALSE, <<>>),
                                WValue("Stringer", << <<"s">> >>, FALSE, <<>>)}]} :
           n \in 0..MaxFields}

\* Printer.fprint(w, v, ptrs) on writer w: the bytes counted, the error, the writer afterwards
RECURSIVE fprint(_, _), fprintElems(_, _, _, _, _)
fprint(v, w) ==
    CASE v.k = "Unsupported" -> [n |-> 0, err |-> TRUE, w |-> w]
      [] v.k = "Printable" -> printableWithResultAdapter(v.texts, v.flag, w)
      [] v.k = "PrintableWithResult" -> PrettyPrintWithResult(v.texts, v.flag, 0, w)
      [] v.k \in {"Stringer", "Int", "nilPointer"} -> Write(w, v.texts[1])
      [] v.k = "Struct" /\ ~hasExportedFields(v) /\ v.flag ->
           Write(w, <<"error(">> \o quoteString(ErrorMessage, DefaultPrinter.MaxErrorLength)
                                \o <<")">>)
      [] OTHER ->
           LET r == Write(w, IF v.k = "Struct" THEN <<"T", "{">> ELSE <<"[">>)
           IN IF r.err THEN r ELSE fprintElems(v, 1, TRUE, r.n, r.w)

\* the loop over the fields of a struct or the elements of an array, from
\* index idx on; first: no field or element has been written yet
fprintElems(v, idx, first, n, w) ==
    IF idx > Len(v.elems)
    THEN LET r == Write(w, IF v.k = "Struct" THEN <<"}">> ELSE <<"]">>)
         IN [n |-> n + r.n, err |-> r.err, w |-> r.w]
    ELSE IF v.k = "Struct" /\ ~IsExported(v.texts[idx])
    THEN fprintElems(v, idx + 1, first, n, w)
    ELSE LET sep  == IF ~first
                     THEN Write(w, IF v.k = "Struct" THEN <<";">> ELSE <<",">>)
                     ELSE [n |-> 0, err |-> FALSE, w |-> w]
             n1   == n + sep.n
             name == IF v.k = "Struct" /\ idx \notin v.anon /\ ~sep.err
                     THEN Write(sep.w, v.texts[idx] \o <<":">>)
                     ELSE [n |-> 0, err |-> FALSE, w |-> sep.w]
             n2   == n1 + name.n
             el   == fprint(v.elems[idx], name.w)
             n3   == n2 + el.n
         IN IF sep.err THEN [n |-> n1, err |-> TRUE, w |-> sep.w]
            ELSE IF name.err THEN [n |-> n2, err |-> TRUE, w |-> name.w]
            ELSE IF el.err THEN [n |-> n3, err |-> TRUE, w |-> el.w]
            ELSE fprintElems(v, idx + 1, FALSE, n3, el.w)

\* the indent arguments of a call: none, an indent, an indent and a line prefix
IndentArgs == {<<>>, << <<" ">> >>, << <<" ">>, <<"/">> >>}

WCalls == {"Fprint", "Fprintln", "Sprint"}

NilValue == WValue("nil", <<>>, FALSE, <<>>)

AfterFprintIndent == IF wcall = "Fprint" THEN "done" ELSE wcall

\* fprintIndent, case value == nil
FprintIndentNil ==
    /\ wpc = "fprintIndent" /\ wv = NilValue
    /\ LET pre == IF Len(windent) > 1
                  THEN Write(sink, Concat(Tail(windent)))
                  ELSE [n |-> 0, err |-> FALSE, w |-> sink]
           r   == Write(pre.w, <<"n", "i", "l">>)
       IN IF pre.err
          THEN wn' = pre.n /\ werr' = TRUE /\ sink' = pre.w
          ELSE wn' = pre.n + r.n /\ werr' = r.err /\ sink' = r.w
    /\ wends' = FALSE
    /\ wpc' = AfterFprintIndent
    /\ UNCHANGED <<wv, wcall, windent, wret>>
    /\ UNCHANGED <<rvars, qvars, ivars, mvars, hvars>>

\* fprintIndent, case len(indent) == 0
FprintIndentDirect ==
    /\ wpc = "fprintIndent" /\ wv # NilValue /\ Len(windent) = 0
    /\ LET r == fprint(wv, sink)
       IN wn' = r.n /\ werr' = r.err /\ sink' = r.w
    /\ wends' = FALSE
    /\ wpc' = AfterFprintIndent
    /\ UNCHANGED <<wv, wcall, windent, wret>>
    /\ UNCHANGED <<rvars, qvars, ivars, mvars, hvars>>

\* faulty variant: the error of the rendering is not looked at
RenderErrorIgnored(r) == FALSE

\* if err != nil, after rendering into the buffer
RenderFailed(r) == r.err

\* fprintIndent, default case: render into a buffer, then call Indent
FprintIndentBuffer ==
    /\ wpc = "fprintIndent" /\ wv # NilValue /\ Len(windent) > 0
    /\ LET r == fprint(wv, Buffer)
       IN IF RenderFailed(r)
          THEN /\ wn' = 0 /\ werr' = TRUE /\ wpc' = AfterFprintIndent
               /\ UNCHANGED ivars
          ELSE /\ wn' = wn /\ werr' = werr /\ wpc' = "Indent"
               /\ source' = r.w.accepted
               /\ indent' = windent[1]
               /\ linePrefix' = Tail(windent)
               /\ state' = "stateDefault"
               /\ newLineIndent' = <<"\n">> \o Concat(linePrefix')
               /\ result' = <<>>
               /\ unwritten' = 0
               /\ i' = 0
               /\ ipc' = "loop"
               /\ depth' = 0
               /\ lastNL' = [text |-> <<>>, depth |-> -1]
               /\ lit' = <<>>
    /\ wends' = FALSE
    /\ UNCHANGED <<wv, wcall, windent, sink, wret>>
    /\ UNCHANGED <<rvars, qvars, mvars, hvars>>

\* fprintIndent, default case: n, err = w.Write(in)
FprintIndentWrite ==
    /\ wpc = "Indent" /\ ipc = "done"
    /\ LET r == Write(sink, result)
       IN wn' = r.n /\ werr' = r.err /\ sink' = r.w
    /\ wends' = (Len(result) > 0 /\ result[Len(result)] = "\n")
    /\ wpc' = AfterFprintIndent
    /\ UNCHANGED <<wv, wcall, windent, wret>>
    /\ UNCHANGED <<rvars, qvars, ivars, mvars, hvars>>

\* Fprintln after fprintIndent
Fprintln ==
    /\ wpc = "Fprintln"
    /\ IF werr \/ wends
       THEN UNCHANGED <<wn, werr, sink>>
       ELSE LET r == Write(sink, <<"\n">>)
            IN wn' = wn + r.n /\ werr' = r.err /\ sink' = r.w
    /\ wpc' = "done"
    /\ UNCHANGED <<wv, wcall, windent, wends, wret>>
    /\ UNCHANGED <<rvars, qvars, ivars, mvars, hvars>>

\* Sprint after fprintIndent: the text of the strings.Builder, or the error as text
SprintResult ==
    /\ wpc = "Sprint"
    /\ wret' = IF werr THEN <<"error printing value: ", "err">> ELSE sink.accepted
    /\ wpc' = "done"
    /\ UNCHANGED <<wv, wcall, windent, sink, wn, werr, wends>>
    /\ UNCHANGED <<rvars, qvars, ivars, mvars, hvars>>

NextStruct == FprintIndentDirect \/ SprintResult

NextWrite ==
    \/ FprintIndentNil \/ FprintIndentDirect \/ FprintIndentBuffer
    \/ IndentStep \/ IndentReturn
    \/ FprintIndentWrite \/ Fprintln \/ SprintResult

(***************************************************************************)
(* Initial states                                                           *)
(***************************************************************************)
RenderIdle ==
    /\ heap = [c \in Cells |-> IntV]
    /\ p = DefaultPrinter
    /\ impl = "part_006"
    /\ rpc = "idle"
    /\ stack = <<>>
    /\ ptrs = {}
    /\ out = <<>>
    /\ lastRet = [entry |-> {}, after |-> {}]
    /\ missed = FALSE

QuoteIdle == qs = <<>> /\ qmax = 0 /\ qres = <<>> /\ qpc = "idle"

IndentIdle ==
    /\ source = <<>> /\ indent = <<>> /\ linePrefix = <<>>
    /\ state = "stateDefault" /\ newLineIndent = <<"\n">> /\ result = <<>>
    /\ unwritten = 0 /\ i = 0 /\ ipc = "idle"
    /\ depth = 0 /\ lastNL = [text |-> <<>>, depth |-> -1] /\ lit = <<>>

MapIdle == mkind = "" /\ mkeys = {} /\ mapKeys = <<>> /\ mpc = "idle" /\ mouts = <<>>

HookIdle ==
    /\ hv = [wrap |-> "none", addressable |-> FALSE, visited |-> FALSE,
             base |-> HookBase("nilptr", {}, {}, <<>>, FALSE)]
    /\ hp = [MaxStringLength |-> DefaultMaxStringLength, MaxErrorLength |-> DefaultMaxErrorLength,
             MaxSliceLength |-> DefaultMaxSliceLength, PrintFuncFor |-> "nil"]
    /\ gDefault = DefaultPrinter
    /\ hpc = "idle"
    /\ hout = <<>>
    /\ hcalls = {}

WriteIdle ==
    /\ wv = NilValue /\ wcall = "Fprint" /\ windent = <<>>
    /\ sink = Buffer /\ wn = 0 /\ werr = FALSE /\ wends = FALSE /\ wret = <<>> /\ wpc = "idle"

\* a value graph in memory, rendered with the DefaultPrinter
InitGraph ==
    /\ heap \in [Cells -> GraphValues]
    /\ WellFormed(heap)
    /\ \A c \in Cells \ {1} : c \notin ReachC(heap, 1) => heap[c] = IntV
    /\ p = DefaultPrinter
    /\ impl = "part_006"
    /\ rpc = "start"
    /\ stack = <<>>
    /\ ptrs = {}
    /\ out = <<>>
    /\ lastRet = [entry |-> {}, after |-> {}]
    /\ missed = FALSE

Init == InitGraph /\ QuoteIdle /\ IndentIdle /\ MapIdle /\ HookIdle /\ WriteIdle

Spec == Init /\ [][NextRender]_vars

\* a string handed to quoteString with a limit
InitQuote ==
    /\ qs \in Strings
    /\ qmax \in -1..MaxLimit
    /\ qres = <<>>
    /\ qpc = "call"

InitQ == InitQuote /\ RenderIdle /\ IndentIdle /\ MapIdle /\ HookIdle /\ WriteIdle

SpecQuote == InitQ /\ [][NextQuote]_vars

\* the compact text of a struct with one string field, as fprint writes it
StructWithString(s) ==
    <<"T", "{">> \o Before(Win("struct", 1, 1), 0) \o LeafText(StrV(s)) \o <<"}">>

\* Indent called on any source, or by fprintIndent on rendered text
InitIndent ==
    /\ \/ source \in Sources /\ lit = <<>>
       \/ \E s \in Strings :
             /\ source = StructWithString(s)
             /\ lit = LeafText(StrV(s))
    /\ indent \in IndentUnits
    /\ linePrefix \in LinePrefixes
    /\ state = "stateDefault"
    /\ newLineIndent = <<"\n">> \o Concat(linePrefix)
    /\ result = <<>>
    /\ unwritten = 0
    /\ i = 0
    /\ ipc = "loop"
    /\ depth = 0
    /\ lastNL = [text |-> <<>>, depth |-> -1]

InitI == RenderIdle /\ QuoteIdle /\ MapIdle /\ HookIdle /\ WriteIdle /\ InitIndent

SpecIndent == InitI /\ [][NextIndent]_vars

\* the values rendered under varying limits
LimitStrings == {Bytes(cs) : cs \in SeqUpTo({"x", "U+00E9"}, MaxStrLen)}

LimitValues ==
    {StrV(t) : t \in LimitStrings} \cup {ErrV(t) : t \in LimitStrings}
    \cup {Flat("byte", d) : d \in SeqUpTo({"x", "FF", "00", "C3", "A9"}, MaxElems)}
    \cup {Flat("int", d) : d \in SeqUpTo({"1", "2"}, MaxElems)}

Limits == -1..MaxLimit

\* a string, an error or a slice of numbers, handed over directly, through a
\* pointer or in an interface, and rendered by a Printer with any limits
InitLimits ==
    /\ \E x \in LimitValues :
          \/ heap = [c \in Cells |-> IF c = 1 THEN x ELSE IntV]
          \/ \E k \in {"ptr", "iface"} :
                heap = [c \in Cells |-> IF c = 1 THEN Ref(k, 2) ELSE IF c = 2 THEN x ELSE IntV]
    /\ p \in [MaxStringLength : Limits, MaxErrorLength : Limits, MaxSliceLength : Limits]
    /\ impl \in {"part_006", "printer.go"}
    /\ rpc = "start"
    /\ stack = <<>>
    /\ ptrs = {}
    /\ out = <<>>
    /\ lastRet = [entry |-> {}, after |-> {}]
    /\ missed = FALSE

InitL == InitLimits /\ QuoteIdle /\ IndentIdle /\ MapIdle /\ HookIdle /\ WriteIdle

SpecLimits == InitL /\ [][NextRender]_vars

\* a non-nil map with keys of type int, or of an interface type
InitMap ==
    /\ \/ mkind = "int" /\ mkeys \in SUBSET IntKeys
       \/ mkind = "uint" /\ mkeys \in SUBSET UintKeys
       \/ mkind = "uintptr" /\ mkeys \in SUBSET UintptrKeys
       \/ mkind = "string" /\ mkeys \in SUBSET StringKeys
       \/ mkind = "bool" /\ mkeys \in SUBSET BoolKeys
       \/ mkind = "interface" /\ mkeys \in SUBSET AnyKeys /\ Cardinality(mkeys) <= MaxKeys
    /\ mapKeys = <<>>
    /\ mpc = "MapKeys"
    /\ mouts = <<>>

InitM == RenderIdle /\ QuoteIdle /\ IndentIdle /\ HookIdle /\ WriteIdle /\ InitMap

SpecMap == InitM /\ [][NextMap]_vars

\* one value slot, rendered by a Printer made from DefaultPrinter
InitHook ==
    /\ hv \in HookValues
    /\ hp \in HookPrinters
    /\ gDefault = DefaultPrinter
    /\ hpc = "fprint"
    /\ hout = <<>>
    /\ hcalls = {}

InitH == RenderIdle /\ QuoteIdle /\ IndentIdle /\ MapIdle /\ WriteIdle /\ InitHook

SpecHook == InitH /\ [][NextHook]_vars

\* Fprint or Fprintln of a value to a sink
InitWrite ==
    /\ wv \in WValues \cup {NilValue}
    /\ wcall \in WCalls
    /\ windent \in IndentArgs
    /\ sink \in Sinks
    /\ wcall = "Sprint" => sink = Buffer
    /\ wn = 0 /\ werr = FALSE /\ wends = FALSE /\ wret = <<>>
    /\ wpc = "fprintIndent"

InitW == RenderIdle /\ QuoteIdle /\ IndentIdle /\ MapIdle /\ HookIdle /\ InitWrite

SpecWrite == InitW /\ [][NextWrite]_vars

\* Sprint of a struct
InitStruct ==
    /\ wv \in StructValues
    /\ wcall = "Sprint"
    /\ windent = <<>>
    /\ sink = Buffer
    /\ wn = 0 /\ werr = FALSE /\ wends = FALSE /\ wret = <<>>
    /\ wpc = "fprintIndent"

InitS == RenderIdle /\ QuoteIdle /\ IndentIdle /\ MapIdle /\ HookIdle /\ InitStruct

SpecStruct == InitS /\ [][NextStruct]_vars

(***************************************************************************)
(* Cycle tracking                                                           *)
(***************************************************************************)
\* the dereference loop of some active call is back at a value it has
\* already unwrapped: it does not end
DerefLoops ==
    \E k \in DOMAIN stack : stack[k].pc = "deref" /\ stack[k].v \in stack[k].seen

\* C1: for every value whose reference graph contains a cycle (through
\* pointers, slices, maps or references held in interface slots) a top-level
\* render terminates - it neither recurses without end nor stays in the
\* dereference loop - and every reference to a target that is being rendered
\* is answered with CIRCULAR_REF.
C1_CyclicValueTerminatesMarked ==
    Cyclic(heap, heap[1]) =>
        /\ rpc # "stack overflow"
        /\ ~DerefLoops
        /\ ~missed

\* C2: for every acyclic value, shared targets and slices sharing a backing
\* store included, a top-level render writes no CIRCULAR_REF.
C2_AcyclicValueHasNoMarker ==
    ~Cyclic(heap, heap[1]) => "CIRCULAR_REF" \notin Range(out)

\* C26: at every point of a render, a reference identity is in the tracker
\* set if and only if some active call of fprint is rendering that reference,
\* the pointers unwrapped by the dereference loop included.
C26_TrackedIffActive ==
    rpc = "fprint" => ptrs = AllActive

\* the finished calls a and b were made by one caller for two different
\* elements holding the same value
Siblings(a, b) == a.idx # b.idx /\ a.arg = b.arg

\* C3: every call of fprint returns with the tracker set as it was on entry,
\* so a target reached again through a sibling path gets the same text as
\* the first time.
C3_TrackerRestoredOnReturn ==
    /\ lastRet.after = lastRet.entry
    /\ \A k \in DOMAIN stack :
          \A a, b \in Range(stack[k].kids) : Siblings(a, b) => a.text = b.text

\* C3, reachable case: a caller has rendered the same non-nil tracked reference for
\* two of its elements, in full both times.
C3_SiblingRenderedTwice ==
    \E k \in DOMAIN stack :
        \E a, b \in Range(stack[k].kids) :
            /\ Siblings(a, b)
            /\ a.arg.kind \in {"ptr", "map"} /\ a.arg.to # 0
            /\ a.text # CircularRef
            /\ Len(a.text) > 1

(***************************************************************************)
(* String truncation                                                        *)
(***************************************************************************)
\* what stands between the delimiters of a quoted string
Inner(q) == SubSeq(q, 2, Len(q) - 1)

EndsWithEllipsis(s) ==
    Len(s) >= Len(Ellipsis) /\ SubSeq(s, Len(s) - Len(Ellipsis) + 1, Len(s)) = Ellipsis

\* the content of a result of quoteString, not counting the ellipsis
Content(q) ==
    IF EndsWithEllipsis(Inner(q))
    THEN SubSeq(Inner(q), 1, Len(Inner(q)) - Len(Ellipsis))
    ELSE Inner(q)

ValidUTF8(s) == \A at \in RuneStarts(s) : ~Invalid(s, at)

\* the first n characters of s
TakeChars(s, n) ==
    IF RuneCount(s) <= n THEN s
    ELSE LET at == CHOOSE a \in RuneStarts(s) :
                       Cardinality({b \in RuneStarts(s) : b < a}) = n
         IN SubSeq(s, 1, at)

\* C6: for maxLen > 0 the result of quoteString has at most maxLen characters
\* of content between its delimiters, the ellipsis not counted, and no
\* multi-byte character is cut.
C6_ContentAtMostMaxLen ==
    qpc = "done" /\ qmax > 0 =>
        /\ RuneCount(Content(qres)) <= qmax
        /\ ValidUTF8(qres)

\* C6, reachable case: a string with a multi-byte character was shortened.
C6_ShortenedMultiByte ==
    /\ qpc = "done" /\ qmax > 0
    /\ EndsWithEllipsis(Inner(qres))
    /\ Len(Content(qres)) < Len(Inner(SprintfSharpQ(qs)))
    /\ \E k \in DOMAIN qs : qs[k] \in NonAscii

\* C7: for maxLen > 0 quoteString shortens only content of more than maxLen
\* characters, and then to its first maxLen characters followed by one
\* ellipsis; content of at most maxLen characters is returned complete.
C7_ShortensByCharacterCount ==
    qpc = "done" /\ qmax > 0 =>
        LET q == SprintfSharpQ(qs) IN
        qres = IF RuneCount(Inner(q)) <= qmax
               THEN ReplaceQuotes(q)
               ELSE ReplaceQuotes(<<q[1]>> \o TakeChars(Inner(q), qmax)
                                           \o Ellipsis \o <<q[Len(q)]>>)

(***************************************************************************)
(* Limits                                                                   *)
(***************************************************************************)
\* the value the top-level call renders once references are unwrapped
Rendered == IF IsRef(heap[1]) THEN heap[heap[1].to] ELSE heap[1]

\* the texts of the elements lo..hi-1 of a flat slice, separated by commas
RECURSIVE ElemTexts(_, _, _)
ElemTexts(v, lo, hi) ==
    IF lo >= hi THEN <<>>
    ELSE (IF lo > 0 THEN <<",">> ELSE <<>>) \o Elem(v, lo).data \o ElemTexts(v, lo + 1, hi)

FullSlice(v) == <<"[">> \o ElemTexts(v, 0, Len(v.data)) \o <<"]">>

CutSlice(v, m) == <<"[">> \o ElemTexts(v, 0, m) \o <<",">> \o Ellipsis \o <<"]">>

AsText(v) == v.kind = "flat" /\ v.elem = "byte" /\ IsText(v.data)

\* no element with index m or more has been handed to fprint
NoneVisitedFrom(m) ==
    \A k \in DOMAIN stack :
        stack[k].v.kind = "flat" =>
            /\ \A a \in Range(stack[k].kids) : a.idx < m
            /\ k < Len(stack) => stack[k + 1].idx < m

\* C8: a limit <= 0 disables its truncation: strings and error messages are
\* rendered in full, every element of a slice is rendered, without an ellipsis
\* element, and no byte slice is replaced by the []byte{len(n)} summary.
C8_NonPositiveLimitDisables ==
    rpc = "done" =>
        LET v == Rendered IN
        /\ v.kind = "str" /\ p.MaxStringLength <= 0
              => out = ReplaceQuotes(SprintfSharpQ(v.data))
        /\ v.kind = "err" /\ p.MaxErrorLength <= 0
              => out = <<"error(">> \o ReplaceQuotes(SprintfSharpQ(v.data)) \o <<")">>
        /\ AsText(v) /\ p.MaxStringLength <= 0
              => out = ReplaceQuotes(SprintfSharpQ(v.data))
        /\ v.kind = "flat" /\ ~AsText(v) /\ p.MaxSliceLength <= 0
              => out = FullSlice(v)

\* C9 as stated: a slice not rendered as text, with MaxSliceLength = m > 0 and
\* n elements, is rendered with all its elements if n <= m, and with its
\* first m elements, one ellipsis element and the closing bracket if n > m.
C9_EverySliceCutAtLimit ==
    LET v == Rendered
        m == p.MaxSliceLength
    IN v.kind = "flat" /\ ~AsText(v) /\ m > 0 =>
        /\ rpc = "done" =>
              out = IF Len(v.data) <= m THEN FullSlice(v) ELSE CutSlice(v, m)
        /\ NoneVisitedFrom(m)

\* C9 (amended): the same for every slice that is neither rendered as text
\* nor a byte slice of more than m elements, which is rendered as the summary
\* []byte{len(n)}.
C9_SliceCutAtLimit ==
    LET v == Rendered
        m == p.MaxSliceLength
    IN v.kind = "flat" /\ ~AsText(v) /\ m > 0 =>
        /\ rpc = "done" =>
              out = IF Len(v.data) <= m THEN FullSlice(v)
                    ELSE IF v.elem = "byte"
                    THEN <<"[]byte{len(", ToString(Len(v.data)), ")}">>
                    ELSE CutSlice(v, m)
        /\ NoneVisitedFrom(m)

\* C9, reachable case: a slice of more than m elements has been rendered up to the
\* ellipsis element.
C9_SliceWasCut ==
    /\ rpc = "done"
    /\ Rendered.kind = "flat" /\ Rendered.elem = "int"
    /\ p.MaxSliceLength > 0 /\ Len(Rendered.data) > p.MaxSliceLength
    /\ out = CutSlice(Rendered, p.MaxSliceLength)

(***************************************************************************)
(* Indentation                                                              *)
(***************************************************************************)
\* t occurs in s as one unbroken piece
Contains(s, t) ==
    \E k \in 0..(Len(s) - Len(t)) : SubSeq(s, k + 1, k + Len(t)) = t

\* C25: a non-nil byte slice is rendered as a quoted string, shortened under
\* MaxStringLength and never under MaxSliceLength, exactly when it is valid
\* UTF-8 without a zero byte; otherwise, with MaxSliceLength = m > 0, it is
\* rendered as []byte{len(n)} when n > m and with all its elements when
\* n <= m, so that no byte slice is rendered with an ellipsis element.
C25_ByteSliceTextOrSummary ==
    LET v == Rendered
        m == p.MaxSliceLength
        n == Len(v.data)
        text == ValidUTF8(v.data) /\ "00" \notin Range(v.data)
    IN rpc = "done" /\ v.kind = "flat" /\ v.elem = "byte" =>
        /\ text => out = quoteString(v.data, p.MaxStringLength)
        /\ ~text /\ m > 0 /\ n > m => out = <<"[]byte{len(", ToString(n), ")}">>
        /\ ~text /\ m > 0 /\ n <= m => out = FullSlice(v)
        /\ ~text => ~Contains(out, <<",">> \o Ellipsis)

\* C25, reachable case: a byte slice of more than m bytes that is text has been
\* rendered as a quoted string.
C25_LongByteSliceRendered ==
    /\ rpc = "done"
    /\ Rendered.kind = "flat" /\ Rendered.elem = "byte"
    /\ p.MaxSliceLength > 0 /\ Len(Rendered.data) > p.MaxSliceLength
    /\ Rendered.data = <<"C3", "A9", "x">>
    /\ out = quoteString(Rendered.data, p.MaxStringLength)

\* C5: a string literal the renderer wrote appears unchanged and unbroken in
\* the indented output, whatever the string contains.
C5_LiteralsSurviveIndent ==
    ipc = "done" /\ lit # <<>> => Contains(result, lit)

\* C10: whatever the input, every newline Indent inserts is followed by the
\* whole line prefix and then one indent unit per unclosed structural brace;
\* a closing brace without an opening one takes nothing away from that.
C10_NewlineFollowedByPrefixAndIndent ==
    lastNL.depth >= 0 =>
        lastNL.text = <<"\n">> \o Concat(linePrefix) \o Rep(indent, lastNL.depth)

(***************************************************************************)
(* Map ordering                                                             *)
(***************************************************************************)
\* C4: two renderings of the same map are byte-identical, whatever order the
\* keys were enumerated in, for every key type and key set.
C4_MapRenderingIsDeterministic ==
    mpc = "done" => mouts[1] = mouts[2]

(***************************************************************************)
(* Quoted spans and content in Indent                                       *)
(***************************************************************************)
\* The state a scanner following the quoting rules is in before the byte at
\* offset target, started at offset at in state mode: a backtick span ends at
\* the next backtick, a double-quote span at the next double quote that is
\* not the second byte of a backslash pair.
RECURSIVE Walk(_, _, _, _)
Walk(s, at, mode, target) ==
    IF at = target THEN mode
    ELSE IF at > target THEN "off a character start"
    ELSE LET d == DecodeRune(s, at) IN
         IF d.r = "RuneError" THEN "decode failure"
         ELSE CASE mode = "stateDefault" ->
                     Walk(s, at + d.size,
                          IF d.r = "BQ" THEN "stateRawString"
                          ELSE IF d.r = "\"" THEN "stateEscString" ELSE mode,
                          target)
                [] mode = "stateRawString" ->
                     Walk(s, at + d.size,
                          IF d.r = "BQ" THEN "stateDefault" ELSE mode, target)
                [] mode = "stateEscString" ->
                     IF d.r = "\\" /\ at + 1 < Len(s) /\ s[at + 2] \in {"\\", "\""}
                     THEN Walk(s, at + 2, mode, target)
                     ELSE Walk(s, at + d.size,
                               IF d.r = "\"" THEN "stateDefault" ELSE mode, target)

\* the byte at offset at (from 0) lies outside every quoted span and before
\* any decode failure
Outside(s, at) ==
    /\ Walk(s, 0, "stateDefault", at) = "stateDefault"
    /\ s[at + 1] \notin {"BQ", "\""}
    /\ DecodeRune(s, at).r # "RuneError"

\* the pieces of s, as pairs of offsets, not interrupted by a byte outside
InSpan(s, a, b) == a <= b /\ \A at \in a..b : ~Outside(s, at)

\* C11: Indent is inside a span exactly from an opening delimiter to the
\* closing delimiter the quoting rules give, and whatever lies in a span is
\* copied in one piece, nothing inserted and nothing removed.
C11_SpansCopiedVerbatim ==
    /\ ipc = "loop" => state = Walk(source, 0, "stateDefault", i)
    /\ ipc = "done" =>
          \A a, b \in 0..(Len(source) - 1) :
              InSpan(source, a, b) => Contains(result, SubSeq(source, a + 1, b + 1))

\* C11, reachable case: a double-quote span holding a backslash pair and a
\* structural character has been closed and written.
C11_SpanWithEscapeClosed ==
    /\ ipc = "done"
    /\ \E a \in 0..(Len(source) - 4) :
          /\ Outside(source, a) \/ a = 0
          /\ source[a + 1] = "\"" /\ source[a + 2] = "\\"
          /\ source[a + 3] \in {"\"", "\\"} /\ source[a + 4] = "\""
          /\ InSpan(source, a, a + 3)
    /\ state = "stateDefault"

\* the bytes of s that are in set S, in order
RECURSIVE Project(_, _)
Project(s, S) ==
    IF s = <<>> THEN <<>>
    ELSE (IF Head(s) \in S THEN <<Head(s)>> ELSE <<>>) \o Project(Tail(s), S)

\* the offsets of the semicolons outside quoted spans
StructuralSemis(s) == {at \in 0..(Len(s) - 1) : s[at + 1] = ";" /\ Outside(s, at)}

RECURSIVE RemoveAt(_, _, _)
RemoveAt(s, D, at) ==
    IF at >= Len(s) THEN <<>>
    ELSE (IF at \in D THEN <<>> ELSE <<s[at + 1]>>) \o RemoveAt(s, D, at + 1)

\* what Indent inserts: spaces, newlines and the line prefix; no source of
\* the model contains these bytes
Inserted == {" ", "\n", "/"}

\* the bytes of the output that stem from the source
FromSource(r) == Project(r, (Range(r) \ Inserted))

\* C13: the output bytes that stem from the source are the source without
\* the semicolons outside quoted spans, in order and each once; unterminated
\* spans, trailing text and everything after a decode failure included.
C13_NoContentLost ==
    ipc = "done" =>
        FromSource(result) = RemoveAt(source, StructuralSemis(source), 0)

\* C13, reachable case: the input ended inside a quoted span or at a decode
\* failure, after a structural semicolon.
C13_UnterminatedTail ==
    /\ ipc = "done"
    /\ StructuralSemis(source) # {}
    /\ \/ state # "stateDefault"
       \/ \E at \in RuneStarts(source) : DecodeRune(source, at).r = "RuneError"
    /\ unwritten < Len(source)

\* Indent is at an opening brace directly followed by a closing one, outside
\* quoted spans
AtEmptyPair ==
    /\ ipc = "loop" /\ i + 1 < Len(source)
    /\ state = "stateDefault"
    /\ source[i + 1] = "{" /\ source[i + 2] = "}"

\* C14: a brace pair outside quoted spans is written as {} on the current
\* line: no newline is inserted with it and the indentation depth stays.
C14_EmptyPairInline ==
    [][AtEmptyPair =>
          /\ newLineIndent' = newLineIndent
          /\ i' = i + 2
          /\ unwritten' = i + 2
          /\ result' = result \o (IF i = 0 THEN Concat(linePrefix) ELSE <<>>)
                              \o Slice(source, unwritten, i) \o <<"{", "}">>]_vars

\* C14, reachable case: a pair inside an open brace has been written.
C14_PairsWritten ==
    /\ ipc = "loop" /\ i >= 3 /\ unwritten = i /\ depth >= 1
    /\ SubSeq(source, i - 1, i) = <<"{", "}">>
    /\ SubSeq(result, Len(result) - 1, Len(result)) = <<"{", "}">>

\* C28: Indent stops reformatting only at bytes that fail to decode as a
\* character, never at a validly encoded one; what follows the place where it
\* stopped is copied verbatim; and a non-empty source whose first bytes decode
\* gets the line prefix in front of its first character.
C28_StopsOnlyAtDecodeFailure ==
    LET pre == Concat(linePrefix)
        n   == Len(source)
    IN /\ ipc \in {"flush", "done"} /\ i < n => Invalid(source, i)
       /\ ipc = "done" /\ i < n =>
              SubSeq(result, Len(result) - (n - i) + 1, Len(result)) = Slice(source, i, n)
       /\ ipc = "done" /\ n > 0 /\ ~Invalid(source, 0) =>
              SubSeq(result, 1, Len(pre)) = pre

\* C30: every iteration of the loop of Indent moves the scan position forward
\* by at least one byte, through the brace pair shortcut and the escape skip
\* too, and neither the scan position nor the flush cursor is ever past the
\* end of the source; so the loop ends.
C30_ScanAdvancesWithinSource ==
    /\ [](i <= Len(source) /\ unwritten <= Len(source))
    /\ [][ipc = "loop" /\ ipc' = "loop" => i' >= i + 1]_vars

\* C30, reachable case: the escape skip has taken the scan to the end of the
\* source, after a colon.
C30_SkipToTheEnd ==
    /\ ipc = "loop"
    /\ source = <<":", "\"", "\\", "\"">>
    /\ state = "stateEscString"
    /\ i = Len(source) /\ unwritten = 1

\* the native order of the keys of a kind: numeric, false before true,
\* byte by byte for strings
NativeBefore(a, b) ==
    IF a.t = "string" THEN StringLess(Digits(a.n), Digits(b.n)) ELSE a.n < b.n

\* C15: for a key type of kind string, signed or unsigned integer (the
\* address-sized unsigned kind included) or bool, the pairs are written in
\* ascending native order of the keys, whatever the enumeration order and
\* whatever the keys look like as text.
C15_NativeKeyOrder ==
    mkind \in {"string", "int", "uint", "uintptr", "bool"} /\ mpc \in {"write", "done"} =>
        /\ \A a, b \in DOMAIN mapKeys : a < b => NativeBefore(mapKeys[a], mapKeys[b])
        /\ mpc = "done" => mouts[Len(mouts)] = <<"{">> \o EntryTexts(mapKeys, 1) \o <<"}">>

(***************************************************************************)
(* Nil pointers, the redaction hook, shared state                           *)
(***************************************************************************)
\* C16: every nil pointer met in the rendered value, directly or held in an
\* interface-typed slot, is rendered as nil, and no custom formatter, IsNull
\* or context method is invoked on it, even when its type implements one.
C16_NilPointerNeverInvoked ==
    NilReceiver(hv) =>
        /\ hcalls = {}
        /\ hpc # "panic"
        /\ hpc = "done" => hout = <<"nil">>

\* C17: with the README's masking hook installed, the text of a secret
\* string never appears in the output, wherever the string sits: directly in
\* the slot, behind a pointer, or in an interface-typed slot.
C17_SecretNeverRendered ==
    hp.PrintFuncFor = "mask" /\ hv.base.k = "String" /\ hv.base.secret /\ hpc = "done" =>
        ~Contains(hout, hv.base.s)

\* C18: the output of a render depends only on the value and on the Printer
\* it was called on: an assignment to DefaultPrinter by another goroutine
\* while the render runs leaves the output what it is without the assignment
\* (the text given by the limits of the Printer called on, or by the
\* DefaultPrinter as it was when the render started).
C18_OutputIndependentOfDefaultPrinter ==
    hpc = "done" /\ Invoked("Context", hv, "") \in hcalls =>
        \E own \in {hp, DefaultPrinter} : hout = ContextText(hv.base.s, own.MaxStringLength)

(***************************************************************************)
(* Sink failures and byte counts                                            *)
(***************************************************************************)
\* C19: once a write to the sink has failed during Fprint or Fprintln, no
\* further write reaches that sink during the call - also when the failure
\* happens inside a custom formatter - and the call returns the error.
C19_NoWriteAfterFailure ==
    /\ sink.late = 0
    /\ wpc = "done" /\ sink.failed => werr

\* C20: for every Fprint and Fprintln call, whether it succeeds or fails
\* part-way, the returned n is the number of bytes the sink accepted during
\* the call; for a Printable it is the sum of what its writes put through
\* the counting wrapper.
C20_CountEqualsAccepted ==
    wpc = "done" => wn = Len(sink.accepted)

\* C20, reachable case: a struct with a Printable field was written to a
\* sink that failed one of the Printable's writes and accepted a later one
C20_CountedThroughFailure ==
    /\ wpc = "done" /\ werr /\ wv.k = "Struct"
    /\ \E k \in DOMAIN wv.elems : wv.elems[k].k = "Printable"
    /\ sink.late > 0 /\ wn > 1 /\ wn = Len(sink.accepted)

(***************************************************************************)
(* Dispatch, structs, byte slices, the tracker                              *)
(***************************************************************************)
\* the render has met a value of an unsupported kind: the value itself or
\* the first field or element, written to a sink that does not fail
UnsupportedMet ==
    /\ wv.k = "Unsupported" \/ (wv.elems # <<>> /\ wv.elems[1].k = "Unsupported")
    /\ sink.failAt = 0
    /\ wpc # "fprintIndent"

Present(v, T) == OnValue(v, T) \/ (v.addressable /\ OnAddress(v, T))

Chosen(v) ==
    CASE Present(v, "PrintableWithResult") -> "PrintableWithResult"
      [] ~Present(v, "PrintableWithResult") /\ Present(v, "Printable") -> "Printable"
      [] \A T \in {"PrintableWithResult", "Printable"} : ~Present(v, T) /\ Present(v, "Stringer")
           -> "Stringer"
      [] OTHER -> "nil"

\* fprint answered the value at its pointer check
AtPointerCheck(v) == Kind(v) = "Pointer" /\ (IsNil(v) \/ v.visited)

FormattersInvoked == {c \in hcalls : c.m \in Formatters}

\* C22: when PrintFuncFor is set it alone decides custom printing: a value
\* it returns nil for is rendered by the default rules, no PrettyPrint or
\* PrettyString of the value is called; when PrintFuncFor is not set,
\* PrintFuncForPrintable is used in its place.
C22_HookAloneDecides ==
    /\ hp.PrintFuncFor = "returnsNil" =>
          /\ FormattersInvoked = {}
          /\ hpc = "done" /\ hcalls = {} /\ ~hv.visited /\ hv.base.k # "String" =>
                hout = IF hv.base.k = "nilptr" THEN <<"nil">> ELSE <<"T{", "}">>
    /\ hp.PrintFuncFor = "nil" /\ hpc \in {"done", "panic"} /\ ~AtPointerCheck(hv) =>
          IF Chosen(hv) = "nil" THEN FormattersInvoked = {}
          ELSE hcalls = {Invoked(Chosen(hv), hv, "")}

\* C22, reachable case: a struct value that implements Printable, rendered
\* through a hook that returned nil for it
C22_PrintableSkipped ==
    /\ hp.PrintFuncFor = "returnsNil" /\ hpc = "done"
    /\ hv.wrap = "none" /\ hv.base.k = "val" /\ "Printable" \in hv.base.meths
    /\ hout = <<"T{", "}">>

\* C23: PrintFuncForPrintable picks by fixed priority - count-returning
\* PrettyPrint, side-effecting PrettyPrint, PrettyString - each looked for
\* on the value and then on its address when the value is addressable; it
\* returns nil exactly when none is present, and the function it returns
\* writes the text of the chosen one.
C23_FormatterByPriority ==
    /\ PrintFuncForPrintable(hv) = Chosen(hv)
    /\ hp.PrintFuncFor = "nil" /\ hpc = "done" /\ FormattersInvoked # {} =>
          hout = FormatterText(Chosen(hv))

\* C23, reachable case: an addressable struct value with PrettyString on the
\* value and the side-effecting PrettyPrint on its address
C23_PrintableOnAddressWins ==
    /\ hp.PrintFuncFor = "nil" /\ hpc = "done"
    /\ hv.wrap = "none" /\ hv.addressable /\ hv.base.k = "val"
    /\ hv.base.meths = {"Stringer"} /\ hv.base.addrMeths = {"Printable"}
    /\ hout = FormatterText("Printable")

\* C27: the first matching rule wins in the order nil pointer, cycle marker,
\* custom formatter, IsNull, context, kind: a non-nil value with a custom
\* formatter that would report IsNull() = true is rendered by the formatter,
\* and a value that reports IsNull() = true and is a context renders as null.
C27_FirstMatchWins ==
    hp.PrintFuncFor = "nil" /\ hpc = "done" =>
        /\ Kind(hv) = "Pointer" /\ IsNil(hv) => hout = <<"nil">> /\ hcalls = {}
        /\ Kind(hv) = "Pointer" /\ ~IsNil(hv) /\ hv.visited =>
              hout = CircularRef /\ hcalls = {}
        /\ ~AtPointerCheck(hv) /\ Chosen(hv) # "nil" =>
              hout = FormatterText(Chosen(hv)) /\ hcalls = FormattersInvoked
        /\ Invoked("Nullable", hv, "true") \in hcalls =>
              hout = <<"null">> /\ \A c \in hcalls : c.m # "Context"

\* C27, reachable case: a non-nil pointer whose type has PrettyPrint, IsNull
\* and the context methods was rendered by PrettyPrint
C27_FormatterBeforeIsNull ==
    /\ hp.PrintFuncFor = "nil" /\ hpc = "done" /\ hv.wrap = "none"
    /\ hv.base.k = "ptr" /\ ~hv.visited
    /\ hv.base.meths = {"Printable", "Nullable", "Context"}
    /\ hout = FormatterText("Printable")

\* the indexes of the fields whose name starts with an upper-case letter, in
\* declaration order, from index idx on
RECURSIVE ExportedFrom(_, _)
ExportedFrom(v, idx) ==
    IF idx > Len(v.texts) THEN <<>>
    ELSE (IF v.texts[idx][1] \in {"A", "C"} THEN <<idx>> ELSE <<>>) \o ExportedFrom(v, idx + 1)

FieldText(v, idx) ==
    (IF idx \in v.anon THEN <<>> ELSE v.texts[idx] \o <<":">>) \o v.elems[idx].texts[1]

RECURSIVE JoinFields(_, _)
JoinFields(v, idxs) ==
    IF idxs = <<>> THEN <<>>
    ELSE IF Len(idxs) = 1 THEN FieldText(v, idxs[1])
    ELSE FieldText(v, idxs[1]) \o <<";">> \o JoinFields(v, Tail(idxs))

\* C24: a struct renders as TypeName{...} listing exactly its exported
\* fields in declaration order, joined by single semicolons, none leading
\* or trailing, each as Name:value except embedded fields, which have no
\* name prefix; unexported fields never appear; a struct that implements
\* error renders as error(message) only if it has no exported field.
C24_StructListsExportedFields ==
    wpc = "done" /\ wv.k = "Struct" /\ wcall = "Sprint" =>
        IF wv.flag /\ ExportedFrom(wv, 1) = <<>>
        THEN wret = <<"error(", "BQ">> \o ErrorMessage \o <<"BQ", ")">>
        ELSE wret = <<"T", "{">> \o JoinFields(wv, ExportedFrom(wv, 1)) \o <<"}">>

\* C24, reachable case: an unexported field before an embedded exported one
\* in a struct that implements error
C24_EmbeddedAfterUnexported ==
    /\ wpc = "done" /\ wv.k = "Struct" /\ wv.flag
    /\ wv.texts = << <<"b">>, <<"A">> >> /\ wv.anon = {2}
    /\ wret = <<"T", "{", "1", "}">>

\* the call renders a non-nil value with at least one indent argument
Indented == wv # NilValue /\ Len(windent) > 0

\* fprintIndent has returned
AfterIndent == wpc \in {"Fprintln", "Sprint", "done"}

\* Fprintln has written its newline
NewlineWritten ==
    wcall = "Fprintln" /\ wpc = "done" /\ sink.failAt # 1 /\ ~wends

\* C29: with at least one indent argument and a non-nil value the sink gets
\* the complete indented text in one single write, made only after the
\* rendering and the indenting are finished, and it gets nothing at all when
\* the rendering returns an error.
C29_OneWriteAfterRendering ==
    Indented =>
        /\ ~AfterIndent => sink.writes = 0
        /\ AfterIndent /\ fprint(wv, Buffer).err =>
              sink.writes = 0 /\ sink.accepted = <<>> /\ werr /\ wn = 0
        /\ AfterIndent /\ ~fprint(wv, Buffer).err =>
              /\ source = fprint(wv, Buffer).w.accepted
              /\ ipc = "done"
              /\ sink.writes = 1 + (IF NewlineWritten THEN 1 ELSE 0)
              /\ sink.failAt # 1 =>
                    /\ SubSeq(sink.accepted, 1, Len(result)) = result
                    /\ ~NewlineWritten => sink.accepted = result

\* C29, reachable case: a text that Indent has spread over several lines has
\* reached the sink in the one write of Fprint.
C29_IndentedTextWritten ==
    /\ Indented /\ wcall = "Fprint" /\ wpc = "done"
    /\ Len(result) > Len(source) + 1
    /\ sink.writes = 1 /\ sink.accepted = result

=============================================================================
